---- MODULE Spec2Model ----
(***************************************************************************)
(* State-machine model of MockDeviceInstance (test/MockDeviceInstance.h),  *)
(* the reference implementation of the IDeviceInstance contract            *)
(* (src/IDeviceInstance.h), together with the client programs of the unit  *)
(* tests (test/test_IDeviceInstance.cpp, test/DeviceTestUtils.h).          *)
(*                                                                         *)
(* Execution contexts:                                                     *)
(*   - client tasks (Tasks): task 0 is the test's main task, the others    *)
(*     are the worker tasks the concurrency tests create;                  *)
(*   - "MockDataAcq" contexts created by requestData() when dataDelay > 0; *)
(*   - "MockNotify" contexts created by notifyEvent().                     *)
(* Every method is split into steps at its lock operations and at its      *)
(* accesses to shared state, so that contexts interleave as FreeRTOS tasks *)
(* of equal priority do.  Time is abstract: a finite timeout of            *)
(* xEventGroupWaitBits may elapse whenever the awaited bits are clear.     *)
(***************************************************************************)
EXTENDS Integers, Sequences, FiniteSets, TLC

(***************************************************************************)
(* Bounds of the model                                                     *)
(***************************************************************************)
\* number of API calls the free client(s) may issue in one behaviour
MaxCalls == 7
\* the same, for the clients of the event and action interfaces
MaxEventCalls == 5
\* the same, for the worker tasks that call the acquisition cycle freely
MaxTaskCalls == 4
\* the same, for the task that owns the instance and calls any operation
MaxOwnerCalls == 3
\* how far below 0 and above NUM_TYPES the arguments given to
\* isValidDataType reach
MaxProbe == 30
\* contexts of the device (MockDataAcq, MockNotify) alive when a free client
\* issues a call
MaxPending == 1
\* worker tasks of the concurrency tests (numTasks)
NumWorkers == 2
\* acquisition cycles per worker (operationsPerTask)
CyclesPerWorker == 2

(***************************************************************************)
(* Program constants                                                       *)
(***************************************************************************)
\* enum class DeviceError / ErrorCode
SUCCESS             == 0
NOT_INITIALIZED     == 1
TIMEOUT             == 2
MUTEX_ERROR         == 3
COMMUNICATION_ERROR == 4
INVALID_PARAMETER   == 5
DEVICE_BUSY         == 8

\* enum class DeviceDataType
TEMPERATURE == 0
HUMIDITY    == 1
PRESSURE    == 2
RELAY_STATE == 3
NUM_TYPES   == 4

\* enum class EventType
INITIALIZED    == 0
DATA_READY     == 1
ERROR_OCCURRED == 2
STATE_CHANGED  == 3
CUSTOM_EVENT   == 4
\* bool eventsEnabled[5]
NumEventTypes == 5
EventTypes == 0 .. (NumEventTypes - 1)

\* event bits BIT0, BIT1, BIT2; the event group is modelled as the set of
\* the bits that are set
INIT_COMPLETE_BIT == 1
DATA_READY_BIT    == 2
ERROR_BIT         == 4

\* xTicksToWait: the timeouts the tests pass (pdMS_TO_TICKS(1), pdMS_TO_TICKS(100));
\* portMAX_DELAY never elapses
ShortTicks    == 1
LongTicks     == 100
portMAX_DELAY == -1

(***************************************************************************)
(* Input domains                                                           *)
(***************************************************************************)
MainTask == 0
Tasks    == 0 .. NumWorkers
Workers  == 1 .. NumWorkers
NoTask   == -1

DataTypes   == {TEMPERATURE, HUMIDITY}
\* sample sequences passed to setTestData (floats, written as scaled integers)
SampleSets  == {<<225>>, <<255, 260>>}
InjectCodes == {COMMUNICATION_ERROR, DEVICE_BUSY}
ActionIds   == {-1, 42}
ActionParams == {100}
Observers   == {1, 2}

VARIABLES
    \* ---- MockDeviceInstance members
    initialized, dataRequested, dataProcessed,
    mutexInstance, mutexInterface, eventGroup,
    testData, nextError, shouldFailNext,
    callbacks, eventsEnabled, performedActions,
    initDelay, dataDelay,
    \* ---- kernel objects
    handles,               \* the handle values held in mutexInstance, mutexInterface, eventGroup
    kernelObjects,         \* the handles of the kernel objects that exist
    \* ---- execution contexts
    pc, arg, ret,          \* client tasks: position, current call, last result
    acqTasks,              \* MockDataAcq contexts: how many are at each stage
    notifyTasks,           \* MockNotify contexts (sequence of records)
    \* ---- test programs
    calls,                 \* API calls issued so far by the free clients
    phase,                 \* per task: where it is in its acquisition cycle
    iter, successCount, errorCount, waitTicks,
    \* ---- history (never read by the modelled code)
    owed,                  \* per observer: notifications triggered for it and not yet delivered
    suppressed,            \* unregisterCallbacks() returned, no registerCallback() since
    injected,              \* code given to the last injectError() not yet consumed
    cfg,                   \* sample sets given to setTestData() since the last reset()
    initStarted,           \* an initialize() was called since construction or the last reset()
    initReturned,          \* number of initialize() calls that returned since then
    wasReset               \* a reset() took effect

flags  == <<initialized, dataRequested, dataProcessed>>
locks  == <<mutexInstance, mutexInterface>>
latch  == <<nextError, shouldFailNext>>
obs    == <<callbacks, eventsEnabled>>
config == <<initDelay, dataDelay, waitTicks, handles, kernelObjects>>
prog   == <<iter, successCount, errorCount>>
hist   == <<owed, suppressed, injected, cfg, initStarted, initReturned, wasReset>>

vars == <<initialized, dataRequested, dataProcessed, mutexInstance, mutexInterface,
          eventGroup, testData, nextError, shouldFailNext, callbacks, eventsEnabled,
          performedActions, initDelay, dataDelay, pc, arg, ret, acqTasks, notifyTasks,
          calls, phase, iter, successCount, errorCount, waitTicks,
          owed, suppressed, injected, cfg, initStarted, initReturned, wasReset,
          handles, kernelObjects>>

(***************************************************************************)
(* Helpers                                                                 *)
(***************************************************************************)
EmptyMap == [x \in {} |-> 0]

\* map m with the count of key k changed by d; keys with count 0 are dropped
Bump(m, k, d) ==
    LET c == (IF k \in DOMAIN m THEN m[k] ELSE 0) + d
        keep == {j \in DOMAIN m \cup {k} : j # k \/ c # 0}
    IN  [j \in keep |-> IF j = k THEN c ELSE m[j]]

\* map m with key k bound to v
Put(m, k, v) == [j \in DOMAIN m \cup {k} |-> IF j = k THEN v ELSE m[j]]

\* the elements of sequence s from position i on
Tail_(s, i) == SubSeq(s, i, Len(s))

\* sequence s without its i-th element
RemoveAt(s, i) == SubSeq(s, 1, i - 1) \o SubSeq(s, i + 1, Len(s))

\* struct EventNotification {type, error, customData}
Notification(type, error, customData) ==
    [type |-> type, error |-> error, customData |-> customData]

\* the result a client task keeps of its last call
Result(op, ok, code, values) == [op |-> op, ok |-> ok, code |-> code, values |-> values]
NoResult == Result("none", FALSE, SUCCESS, <<>>)
NoCall   == [op |-> "none", x |-> 0, y |-> 0]

(***************************************************************************)
(* Construction: MockDeviceInstance(initDelayMs, dataDelayMs)              *)
(***************************************************************************)
\* the two constructions of the sources: the default arguments (0, 0) and the
\* test fixture's MockDeviceInstance(10, 20)
Delays == {<<0, 0>>, <<10, 20>>}

\* the null handle, and the handles xSemaphoreCreateMutex() (twice) and
\* xEventGroupCreate() return to the constructor: three new kernel objects
NULL == 0
Created == [mutexInstance |-> 1, mutexInterface |-> 2, eventGroup |-> 3]

Construction ==
    /\ initialized = FALSE /\ dataRequested = FALSE /\ dataProcessed = FALSE
    /\ mutexInstance = NoTask /\ mutexInterface = NoTask
    /\ eventGroup = {}
    /\ testData = EmptyMap
    /\ nextError = SUCCESS /\ shouldFailNext = FALSE
    /\ callbacks = <<>>
    /\ eventsEnabled = [e \in EventTypes |-> TRUE]
    /\ performedActions = <<>>
    /\ \E d \in Delays : initDelay = d[1] /\ dataDelay = d[2]
    /\ handles = Created
    /\ kernelObjects = {Created.mutexInstance, Created.mutexInterface, Created.eventGroup}
    /\ pc = [t \in Tasks |-> "idle"]
    /\ arg = [t \in Tasks |-> NoCall]
    /\ ret = [t \in Tasks |-> NoResult]
    /\ acqTasks = [delay |-> 0, notify |-> 0]
    /\ notifyTasks = <<>>
    /\ calls = 0
    /\ phase = [t \in Tasks |-> "idle"]
    /\ iter = [t \in Tasks |-> 0]
    /\ successCount = 0 /\ errorCount = 0
    /\ owed = [o \in Observers |-> EmptyMap]
    /\ suppressed = FALSE
    /\ injected = SUCCESS
    /\ cfg = EmptyMap
    /\ initStarted = FALSE /\ initReturned = 0 /\ wasReset = FALSE

\* the timeout the client programs pass to waitForData(xTicksToWait)
Init == Construction /\ waitTicks = LongTicks

(***************************************************************************)
(* notifyEvent(): the part executed by the triggering context              *)
(***************************************************************************)
\* number of times observer o is registered in list s
Occurrences(s, o) == Cardinality({i \in 1 .. Len(s) : s[i] = o})

\* A MockNotify context: the heap-allocated pair (this, notification) and the
\* position of its loop over this->callbacks.  The range-for evaluates
\* begin() and end() once, when the loop starts: snap is the list it walks.
\* stale, supp and again are history: the observer list was modified after
\* the trigger; the trigger fell into a window in which no observer was
\* registered; the trigger was an initialize() of an initialized device.
NotifyTask(n, again) ==
    [notif |-> n, stage |-> "new", snap |-> <<>>, idx |-> 1,
     stale |-> FALSE, supp |-> suppressed, again |-> again]

\* faulty variant of the function below: the enable flag is not consulted
NotifyEvent_Ungated(type, error, customData, again) ==
    Append(notifyTasks, NotifyTask(Notification(type, error, customData), again))

NotifyEvent(type, error, customData, again) ==
    IF ~eventsEnabled[type]
    THEN notifyTasks
    ELSE Append(notifyTasks, NotifyTask(Notification(type, error, customData), again))

\* history: a trigger of an enabled event owes one notification to every
\* registration of the observer list
Owe(type, error, customData) ==
    IF ~eventsEnabled[type]
    THEN owed
    ELSE [o \in Observers |->
            Bump(owed[o], Notification(type, error, customData), Occurrences(callbacks, o))]

\* history: the observer list is about to be modified; what the pending
\* contexts still owe is cancelled and they are marked stale
RECURSIVE Forgive(_, _)
Forgive(i, ow) ==
    IF i > Len(notifyTasks) THEN ow
    ELSE LET d == notifyTasks[i]
             rest == Tail_(callbacks, IF d.stage = "loop" THEN d.idx ELSE 1)
         IN  Forgive(i + 1,
                     IF d.stale THEN ow
                     ELSE [o \in Observers |-> Bump(ow[o], d.notif, 0 - Occurrences(rest, o))])

MarkStale ==
    [i \in 1 .. Len(notifyTasks) |-> [notifyTasks[i] EXCEPT !.stale = TRUE, !.supp = FALSE]]

(***************************************************************************)
(* notifyEvent(): the MockNotify context                                   *)
(***************************************************************************)
\* faulty variant of the step below: a context whose observer list was
\* modified after the trigger walks no observer
NotifyTask_Begin_Frozen(i) ==
    /\ notifyTasks[i].stage = "new"
    /\ notifyTasks' = [notifyTasks EXCEPT ![i] =
                          [@ EXCEPT !.stage = "loop",
                                    !.snap = IF notifyTasks[i].stale THEN <<>> ELSE callbacks,
                                    !.idx = 1]]
    /\ UNCHANGED <<flags, locks, eventGroup, testData, latch, obs, performedActions,
                   config, pc, arg, ret, acqTasks, calls, phase, prog, hist>>

\* for (const auto& callback : self->callbacks): begin() and end() are read
NotifyTask_Begin(i) ==
    /\ notifyTasks[i].stage = "new"
    /\ notifyTasks' = [notifyTasks EXCEPT ![i] =
                          [@ EXCEPT !.stage = "loop", !.snap = callbacks, !.idx = 1]]
    /\ UNCHANGED <<flags, locks, eventGroup, testData, latch, obs, performedActions,
                   config, pc, arg, ret, acqTasks, calls, phase, prog, hist>>

\* callback(notif)
NotifyTask_Callback(i) ==
    LET d == notifyTasks[i] IN
    /\ d.stage = "loop"
    /\ d.idx <= Len(d.snap)
    /\ notifyTasks' = [notifyTasks EXCEPT ![i] = [@ EXCEPT !.idx = d.idx + 1]]
    /\ owed' = IF d.stale THEN owed
               ELSE [owed EXCEPT ![d.snap[d.idx]] = Bump(@, d.notif, 0 - 1)]
    /\ UNCHANGED <<flags, locks, eventGroup, testData, latch, obs, performedActions,
                   config, pc, arg, ret, acqTasks, calls, phase, prog,
                   suppressed, injected, cfg, initStarted, initReturned, wasReset>>

\* callback(notif) throws: nothing in the task function catches the exception,
\* std::terminate is called inside the loop, the record is not deleted and
\* vTaskDelete is not reached
NotifyTask_Throw(i) ==
    LET d == notifyTasks[i] IN
    /\ d.stage = "loop"
    /\ d.idx <= Len(d.snap)
    /\ notifyTasks' = [notifyTasks EXCEPT ![i] = [@ EXCEPT !.stage = "terminate"]]
    /\ UNCHANGED <<flags, locks, eventGroup, testData, latch, obs, performedActions,
                   config, pc, arg, ret, acqTasks, calls, phase, prog, hist>>

\* the vector was modified by push_back or clear() while the loop was
\* running on it: the loop's iterators are invalid (undefined behaviour).
\* Besides going on over the elements it started with (NotifyTask_Callback),
\* the loop may go on over the current contents, or fault.
NotifyTask_Invalidated(i) ==
    LET d == notifyTasks[i] IN
    /\ d.stage = "loop"
    /\ d.idx <= Len(d.snap)
    /\ d.snap # callbacks
    /\ \/ notifyTasks' = [notifyTasks EXCEPT ![i] = [@ EXCEPT !.snap = callbacks]]
       \/ notifyTasks' = [notifyTasks EXCEPT ![i] = [@ EXCEPT !.stage = "terminate"]]
    /\ UNCHANGED <<flags, locks, eventGroup, testData, latch, obs, performedActions,
                   config, pc, arg, ret, acqTasks, calls, phase, prog, hist>>

\* faulty variant of the step below: the context may end inside its loop
NotifyTask_End_Early(i) ==
    LET d == notifyTasks[i] IN
    /\ d.stage = "loop"
    /\ notifyTasks' = RemoveAt(notifyTasks, i)
    /\ UNCHANGED <<flags, locks, eventGroup, testData, latch, obs, performedActions,
                   config, pc, arg, ret, acqTasks, calls, phase, prog, hist>>

\* delete data; vTaskDelete(nullptr)
NotifyTask_End(i) ==
    LET d == notifyTasks[i] IN
    /\ d.stage = "loop"
    /\ d.idx > Len(d.snap)
    /\ notifyTasks' = RemoveAt(notifyTasks, i)
    /\ UNCHANGED <<flags, locks, eventGroup, testData, latch, obs, performedActions,
                   config, pc, arg, ret, acqTasks, calls, phase, prog, hist>>

(***************************************************************************)
(* Client tasks: calling an operation and returning from it                *)
(***************************************************************************)
FirstPc(op) ==
    CASE op = "initialize"            -> "init_take"
      [] op = "waitForInitialization" -> "winit_wait"
      [] op = "requestData"           -> "req_init"
      [] op = "waitForData"           -> "wdata_wait"
      [] op = "processData"           -> "proc_take"
      [] op = "getData"               -> "get_take"
      [] op = "performAction"         -> "act_init"
      [] op = "registerCallback"      -> "reg_take"
      [] op = "unregisterCallbacks"   -> "unreg_take"
      [] op = "setEventNotification"  -> "sev_set"
      [] op = "setTestData"           -> "std_take"
      [] op = "injectError"           -> "inj_set"
      [] op = "reset"                 -> "rst_take"
      [] op = "isValidDataType"       -> "valid_eval"

\* task t enters operation op with arguments x and y (the caller's own
\* variables, calls and prog, are left to the calling program)
Begin(t, op, x, y) ==
    /\ pc[t] = "idle"
    /\ pc' = [pc EXCEPT ![t] = FirstPc(op)]
    /\ arg' = [arg EXCEPT ![t] = [op |-> op, x |-> x, y |-> y]]
    /\ ret' = [ret EXCEPT ![t] = NoResult]
    /\ initStarted' = (initStarted \/ op = "initialize")
    /\ UNCHANGED <<flags, locks, eventGroup, testData, latch, obs, performedActions,
                   config, acqTasks, notifyTasks, phase,
                   owed, suppressed, injected, cfg, initReturned, wasReset>>

\* history: where the calling task is in its acquisition cycle
\* (requestData -> waitForData -> processData -> getData) after result r
NextPhase(ph, r) ==
    CASE r.op = "requestData" -> IF r.ok THEN "requested" ELSE "failed"
      [] r.op = "waitForData" -> IF ph = "requested"
                                 THEN (IF r.code = SUCCESS THEN "waited" ELSE "failed")
                                 ELSE ph
      [] r.op = "processData" -> IF ph = "waited" THEN "processed"
                                 ELSE IF ph = "requested" THEN "unwaited" ELSE ph
      [] OTHER -> ph

\* task t returns r to its caller
Return(t, r) ==
    /\ pc' = [pc EXCEPT ![t] = "idle"]
    /\ arg' = [arg EXCEPT ![t] = NoCall]
    /\ ret' = [ret EXCEPT ![t] = r]
    /\ phase' = [phase EXCEPT ![t] = NextPhase(phase[t], r)]

\* task t moves on inside its operation
Goto(t, label) ==
    /\ pc' = [pc EXCEPT ![t] = label]
    /\ UNCHANGED <<arg, ret, phase>>

(***************************************************************************)
(* initialize()                                                            *)
(***************************************************************************)
\* xSemaphoreTake(mutexInstance, portMAX_DELAY)
Initialize_Take(t) ==
    /\ pc[t] = "init_take"
    /\ mutexInstance = NoTask
    /\ mutexInstance' = t
    /\ Goto(t, IF initDelay > 0 THEN "init_yield" ELSE "init_flag")
    /\ UNCHANGED <<flags, mutexInterface, eventGroup, testData, latch, obs,
                   performedActions, config, acqTasks, notifyTasks, calls, prog, hist>>

\* if (initDelay > 0) xSemaphoreGive(mutexInstance)
Initialize_Yield(t) ==
    /\ pc[t] = "init_yield"
    /\ mutexInstance' = NoTask
    /\ Goto(t, "init_delay")
    /\ UNCHANGED <<flags, mutexInterface, eventGroup, testData, latch, obs,
                   performedActions, config, acqTasks, notifyTasks, calls, prog, hist>>

\* vTaskDelay(initDelay); xSemaphoreTake(mutexInstance, portMAX_DELAY)
Initialize_Retake(t) ==
    /\ pc[t] = "init_delay"
    /\ mutexInstance = NoTask
    /\ mutexInstance' = t
    /\ Goto(t, "init_flag")
    /\ UNCHANGED <<flags, mutexInterface, eventGroup, testData, latch, obs,
                   performedActions, config, acqTasks, notifyTasks, calls, prog, hist>>

\* faulty variant of the step below: the flag is not set
Initialize_Flag_Dropped(t) ==
    /\ pc[t] = "init_flag"
    /\ Goto(t, "init_bits")
    /\ UNCHANGED <<flags, locks, eventGroup, testData, latch, obs,
                   performedActions, config, acqTasks, notifyTasks, calls, prog, hist>>

\* initialized = true
Initialize_Flag(t) ==
    /\ pc[t] = "init_flag"
    /\ initialized' = TRUE
    /\ Goto(t, "init_bits")
    /\ UNCHANGED <<dataRequested, dataProcessed, locks, eventGroup, testData, latch, obs,
                   performedActions, config, acqTasks, notifyTasks, calls, prog, hist>>

\* xEventGroupSetBits(eventGroup, INIT_COMPLETE_BIT)
Initialize_Bits(t) ==
    /\ pc[t] = "init_bits"
    /\ eventGroup' = eventGroup \cup {INIT_COMPLETE_BIT}
    /\ Goto(t, "init_notify")
    /\ UNCHANGED <<flags, locks, testData, latch, obs,
                   performedActions, config, acqTasks, notifyTasks, calls, prog, hist>>

\* notifyEvent(EventType::INITIALIZED, ErrorCode::SUCCESS)
Initialize_Notify(t) ==
    /\ pc[t] = "init_notify"
    /\ notifyTasks' = NotifyEvent(INITIALIZED, SUCCESS, 0, arg[t].x = 1)
    /\ owed' = Owe(INITIALIZED, SUCCESS, 0)
    /\ Goto(t, "init_give")
    /\ UNCHANGED <<flags, locks, eventGroup, testData, latch, obs,
                   performedActions, config, acqTasks, calls, prog,
                   suppressed, injected, cfg, initStarted, initReturned, wasReset>>

\* xSemaphoreGive(mutexInstance); return
Initialize_Give(t) ==
    /\ pc[t] = "init_give"
    /\ mutexInstance' = NoTask
    /\ Return(t, Result("initialize", TRUE, SUCCESS, <<>>))
    /\ initReturned' = initReturned + 1
    /\ UNCHANGED <<flags, mutexInterface, eventGroup, testData, latch, obs,
                   performedActions, config, acqTasks, notifyTasks, calls, prog,
                   owed, suppressed, injected, cfg, initStarted, wasReset>>

Initialize(t) ==
    \/ Initialize_Take(t) \/ Initialize_Yield(t) \/ Initialize_Retake(t)
    \/ Initialize_Flag(t) \/ Initialize_Bits(t) \/ Initialize_Notify(t)
    \/ Initialize_Give(t)

\* bool isInitialized() const noexcept
IsInitialized == initialized

(***************************************************************************)
(* requestData()                                                           *)
(***************************************************************************)
\* if (!initialized) return false
RequestData_CheckInit(t) ==
    /\ pc[t] = "req_init"
    /\ IF ~initialized
       THEN Return(t, Result("requestData", FALSE, SUCCESS, <<>>))
       ELSE Goto(t, "req_latch")
    /\ UNCHANGED <<flags, locks, eventGroup, testData, latch, obs, performedActions,
                   config, acqTasks, notifyTasks, calls, prog, hist>>

\* if (shouldFailNext)
RequestData_CheckLatch(t) ==
    /\ pc[t] = "req_latch"
    /\ Goto(t, IF shouldFailNext THEN "req_fail" ELSE "req_take")
    /\ UNCHANGED <<flags, locks, eventGroup, testData, latch, obs, performedActions,
                   config, acqTasks, notifyTasks, calls, prog, hist>>

\* faulty variant of the step below: the notification carries SUCCESS
RequestData_Fail_WrongCode(t) ==
    /\ pc[t] = "req_fail"
    /\ shouldFailNext' = FALSE
    /\ notifyTasks' = NotifyEvent(ERROR_OCCURRED, SUCCESS, 0, FALSE)
    /\ owed' = Owe(ERROR_OCCURRED, injected, 0)
    /\ injected' = SUCCESS
    /\ Return(t, Result("requestData", FALSE, SUCCESS, <<>>))
    /\ UNCHANGED <<flags, locks, eventGroup, testData, nextError, obs, performedActions,
                   config, acqTasks, calls, prog,
                   suppressed, cfg, initStarted, initReturned, wasReset>>

\* faulty variant of the step below: the failure is also signalled on the
\* event group
RequestData_Fail_Signalled(t) ==
    /\ pc[t] = "req_fail"
    /\ shouldFailNext' = FALSE
    /\ eventGroup' = eventGroup \cup {ERROR_BIT}
    /\ notifyTasks' = NotifyEvent(ERROR_OCCURRED, nextError, 0, FALSE)
    /\ owed' = Owe(ERROR_OCCURRED, injected, 0)
    /\ injected' = SUCCESS
    /\ Return(t, Result("requestData", FALSE, SUCCESS, <<>>))
    /\ UNCHANGED <<flags, locks, testData, nextError, obs, performedActions,
                   config, acqTasks, calls, prog,
                   suppressed, cfg, initStarted, initReturned, wasReset>>

\* shouldFailNext = false; notifyEvent(ERROR_OCCURRED, nextError); return false
RequestData_Fail(t) ==
    /\ pc[t] = "req_fail"
    /\ shouldFailNext' = FALSE
    /\ notifyTasks' = NotifyEvent(ERROR_OCCURRED, nextError, 0, FALSE)
    /\ owed' = Owe(ERROR_OCCURRED, injected, 0)
    /\ injected' = SUCCESS
    /\ Return(t, Result("requestData", FALSE, SUCCESS, <<>>))
    /\ UNCHANGED <<flags, locks, eventGroup, testData, nextError, obs, performedActions,
                   config, acqTasks, calls, prog,
                   suppressed, cfg, initStarted, initReturned, wasReset>>

\* faulty variant of the step below: the instance lock is taken as well
RequestData_Take_Both(t) ==
    /\ pc[t] = "req_take"
    /\ mutexInterface = NoTask /\ mutexInstance = NoTask
    /\ mutexInterface' = t /\ mutexInstance' = t
    /\ Goto(t, "req_flags")
    /\ UNCHANGED <<flags, eventGroup, testData, latch, obs, performedActions,
                   config, acqTasks, notifyTasks, calls, prog, hist>>

\* xSemaphoreTake(mutexInterface, portMAX_DELAY)
RequestData_Take(t) ==
    /\ pc[t] = "req_take"
    /\ mutexInterface = NoTask
    /\ mutexInterface' = t
    /\ Goto(t, "req_flags")
    /\ UNCHANGED <<flags, mutexInstance, eventGroup, testData, latch, obs, performedActions,
                   config, acqTasks, notifyTasks, calls, prog, hist>>

\* dataRequested = true; dataProcessed = false
RequestData_Flags(t) ==
    /\ pc[t] = "req_flags"
    /\ dataRequested' = TRUE
    /\ dataProcessed' = FALSE
    /\ Goto(t, "req_clear")
    /\ UNCHANGED <<initialized, locks, eventGroup, testData, latch, obs, performedActions,
                   config, acqTasks, notifyTasks, calls, prog, hist>>

\* xEventGroupClearBits(eventGroup, DATA_READY_BIT)
RequestData_Clear(t) ==
    /\ pc[t] = "req_clear"
    /\ eventGroup' = eventGroup \ {DATA_READY_BIT}
    /\ Goto(t, "req_acquire")
    /\ UNCHANGED <<flags, locks, testData, latch, obs, performedActions,
                   config, acqTasks, notifyTasks, calls, prog, hist>>

\* faulty variant of the step below: the bit is set at once although the
\* acquisition is deferred
RequestData_Acquire_Eager(t) ==
    /\ pc[t] = "req_acquire"
    /\ eventGroup' = eventGroup \cup {DATA_READY_BIT}
    /\ IF dataDelay > 0
       THEN /\ acqTasks' = [acqTasks EXCEPT !.delay = @ + 1]
            /\ Goto(t, "req_give")
       ELSE /\ UNCHANGED acqTasks
            /\ Goto(t, "req_notify")
    /\ UNCHANGED <<flags, locks, testData, latch, obs, performedActions,
                   config, notifyTasks, calls, prog, hist>>

\* if (dataDelay > 0) xTaskCreate(MockDataAcq) else xEventGroupSetBits(DATA_READY_BIT)
RequestData_Acquire(t) ==
    /\ pc[t] = "req_acquire"
    /\ IF dataDelay > 0
       THEN /\ acqTasks' = [acqTasks EXCEPT !.delay = @ + 1]
            /\ UNCHANGED eventGroup
            /\ Goto(t, "req_give")
       ELSE /\ eventGroup' = eventGroup \cup {DATA_READY_BIT}
            /\ UNCHANGED acqTasks
            /\ Goto(t, "req_notify")
    /\ UNCHANGED <<flags, locks, testData, latch, obs, performedActions,
                   config, notifyTasks, calls, prog, hist>>

\* notifyEvent(EventType::DATA_READY, ErrorCode::SUCCESS)
RequestData_Notify(t) ==
    /\ pc[t] = "req_notify"
    /\ notifyTasks' = NotifyEvent(DATA_READY, SUCCESS, 0, FALSE)
    /\ owed' = Owe(DATA_READY, SUCCESS, 0)
    /\ Goto(t, "req_give")
    /\ UNCHANGED <<flags, locks, eventGroup, testData, latch, obs, performedActions,
                   config, acqTasks, calls, prog,
                   suppressed, injected, cfg, initStarted, initReturned, wasReset>>

\* faulty variant of the step below: the interface lock is not released
RequestData_Give_Held(t) ==
    /\ pc[t] = "req_give"
    /\ Return(t, Result("requestData", TRUE, SUCCESS, <<>>))
    /\ UNCHANGED <<flags, locks, eventGroup, testData, latch, obs, performedActions,
                   config, acqTasks, notifyTasks, calls, prog, hist>>

\* xSemaphoreGive(mutexInterface); return true
RequestData_Give(t) ==
    /\ pc[t] = "req_give"
    /\ mutexInterface' = NoTask
    /\ Return(t, Result("requestData", TRUE, SUCCESS, <<>>))
    /\ UNCHANGED <<flags, mutexInstance, eventGroup, testData, latch, obs, performedActions,
                   config, acqTasks, notifyTasks, calls, prog, hist>>

RequestData(t) ==
    \/ RequestData_CheckInit(t) \/ RequestData_CheckLatch(t) \/ RequestData_Fail(t)
    \/ RequestData_Take(t) \/ RequestData_Flags(t) \/ RequestData_Clear(t)
    \/ RequestData_Acquire(t) \/ RequestData_Notify(t) \/ RequestData_Give(t)

(***************************************************************************)
(* The MockDataAcq context of requestData()                                *)
(***************************************************************************)
\* faulty variant of the step below: the context goes on without asserting
\* DATA_READY
Acquire_SetBits_Lost ==
    /\ acqTasks.delay > 0
    /\ acqTasks' = [delay |-> acqTasks.delay - 1, notify |-> acqTasks.notify + 1]
    /\ UNCHANGED <<flags, locks, eventGroup, testData, latch, obs, performedActions,
                   config, pc, arg, ret, notifyTasks, calls, phase, prog, hist>>

\* vTaskDelay(self->dataDelay); xEventGroupSetBits(self->eventGroup, DATA_READY_BIT)
Acquire_SetBits ==
    /\ acqTasks.delay > 0
    /\ acqTasks' = [delay |-> acqTasks.delay - 1, notify |-> acqTasks.notify + 1]
    /\ eventGroup' = eventGroup \cup {DATA_READY_BIT}
    /\ UNCHANGED <<flags, locks, testData, latch, obs, performedActions,
                   config, pc, arg, ret, notifyTasks, calls, phase, prog, hist>>

\* self->notifyEvent(EventType::DATA_READY, ErrorCode::SUCCESS); vTaskDelete(nullptr)
Acquire_Notify ==
    /\ acqTasks.notify > 0
    /\ acqTasks' = [acqTasks EXCEPT !.notify = @ - 1]
    /\ notifyTasks' = NotifyEvent(DATA_READY, SUCCESS, 0, FALSE)
    /\ owed' = Owe(DATA_READY, SUCCESS, 0)
    /\ UNCHANGED <<flags, locks, eventGroup, testData, latch, obs, performedActions,
                   config, pc, arg, ret, calls, phase, prog,
                   suppressed, injected, cfg, initStarted, initReturned, wasReset>>

(***************************************************************************)
(* waitForData(), waitForData(xTicksToWait), waitForInitialization(...)    *)
(***************************************************************************)
\* an acquisition is under way: a MockDataAcq context has not yet asserted
\* DATA_READY, or a requestData() is inside its critical section
AcquisitionInFlight == acqTasks.delay > 0 \/ mutexInterface # NoTask

\* xEventGroupWaitBits gives up after xTicksToWait: never for portMAX_DELAY, and
\* a timeout longer than the acquisition latency does not elapse while an
\* acquisition is under way
TimeoutMayElapse(ticks) ==
    /\ ticks # portMAX_DELAY
    /\ ticks > dataDelay => ~AcquisitionInFlight

\* faulty variant of the function below: without a bit the injected code is
\* returned, never TIMEOUT
WaitForDataResult_NoTimeout(bits) ==
    Result("waitForData", DATA_READY_BIT \in bits,
           IF DATA_READY_BIT \in bits THEN SUCCESS ELSE nextError, <<>>)

\* the value of both overloads: ok is what bool waitForData() returns,
\* code what ErrorCode waitForData(TickType_t) returns
WaitForDataResult(bits) ==
    Result("waitForData", DATA_READY_BIT \in bits,
           IF DATA_READY_BIT \in bits THEN SUCCESS
           ELSE IF ERROR_BIT \in bits THEN nextError
           ELSE TIMEOUT, <<>>)

\* faulty variant of the step below: the bits waited for are cleared on exit
WaitForData_Wake_Consuming(t) ==
    /\ pc[t] = "wdata_wait"
    /\ eventGroup \cap {DATA_READY_BIT, ERROR_BIT} # {}
    /\ eventGroup' = eventGroup \ {DATA_READY_BIT, ERROR_BIT}
    /\ Return(t, WaitForDataResult(eventGroup))
    /\ UNCHANGED <<flags, locks, testData, latch, obs, performedActions,
                   config, acqTasks, notifyTasks, calls, prog, hist>>

\* xEventGroupWaitBits(eventGroup, DATA_READY_BIT | ERROR_BIT, pdFALSE, pdFALSE, ticks)
\* returns because one of the bits is set
WaitForData_Wake(t) ==
    /\ pc[t] = "wdata_wait"
    /\ eventGroup \cap {DATA_READY_BIT, ERROR_BIT} # {}
    /\ Return(t, WaitForDataResult(eventGroup))
    /\ UNCHANGED <<flags, locks, eventGroup, testData, latch, obs, performedActions,
                   config, acqTasks, notifyTasks, calls, prog, hist>>

\* faulty variant of the step below: the timeout abandons the acquisitions
WaitForData_Timeout_Cancels(t) ==
    /\ pc[t] = "wdata_wait"
    /\ eventGroup \cap {DATA_READY_BIT, ERROR_BIT} = {}
    /\ TimeoutMayElapse(arg[t].x)
    /\ acqTasks' = [acqTasks EXCEPT !.delay = 0]
    /\ Return(t, WaitForDataResult(eventGroup))
    /\ UNCHANGED <<flags, locks, eventGroup, testData, latch, obs, performedActions,
                   config, notifyTasks, calls, prog, hist>>

\* ... returns because the timeout elapsed
WaitForData_Timeout(t) ==
    /\ pc[t] = "wdata_wait"
    /\ eventGroup \cap {DATA_READY_BIT, ERROR_BIT} = {}
    /\ TimeoutMayElapse(arg[t].x)
    /\ Return(t, WaitForDataResult(eventGroup))
    /\ UNCHANGED <<flags, locks, eventGroup, testData, latch, obs, performedActions,
                   config, acqTasks, notifyTasks, calls, prog, hist>>

\* faulty variant of the function below: the wait never reports a timeout
WaitForInitializationResult_NoTimeout(bits) ==
    Result("waitForInitialization", TRUE, SUCCESS, <<>>)

WaitForInitializationResult(bits) ==
    Result("waitForInitialization", INIT_COMPLETE_BIT \in bits,
           IF INIT_COMPLETE_BIT \in bits THEN SUCCESS ELSE TIMEOUT, <<>>)

\* xEventGroupWaitBits(eventGroup, INIT_COMPLETE_BIT, pdFALSE, pdTRUE, ticks)
WaitForInitialization_Wake(t) ==
    /\ pc[t] = "winit_wait"
    /\ INIT_COMPLETE_BIT \in eventGroup
    /\ Return(t, WaitForInitializationResult(eventGroup))
    /\ UNCHANGED <<flags, locks, eventGroup, testData, latch, obs, performedActions,
                   config, acqTasks, notifyTasks, calls, prog, hist>>

WaitForInitialization_Timeout(t) ==
    /\ pc[t] = "winit_wait"
    /\ INIT_COMPLETE_BIT \notin eventGroup
    /\ arg[t].x # portMAX_DELAY
    /\ Return(t, WaitForInitializationResult(eventGroup))
    /\ UNCHANGED <<flags, locks, eventGroup, testData, latch, obs, performedActions,
                   config, acqTasks, notifyTasks, calls, prog, hist>>

(***************************************************************************)
(* processData(), getData(dataType)                                        *)
(***************************************************************************)
ProcessData_Take(t) ==
    /\ pc[t] = "proc_take"
    /\ mutexInstance = NoTask
    /\ mutexInstance' = t
    /\ Goto(t, "proc_set")
    /\ UNCHANGED <<flags, mutexInterface, eventGroup, testData, latch, obs, performedActions,
                   config, acqTasks, notifyTasks, calls, prog, hist>>

\* dataProcessed = true
ProcessData_Set(t) ==
    /\ pc[t] = "proc_set"
    /\ dataProcessed' = TRUE
    /\ Goto(t, "proc_give")
    /\ UNCHANGED <<initialized, dataRequested, locks, eventGroup, testData, latch, obs,
                   performedActions, config, acqTasks, notifyTasks, calls, prog, hist>>

ProcessData_Give(t) ==
    /\ pc[t] = "proc_give"
    /\ mutexInstance' = NoTask
    /\ Return(t, Result("processData", TRUE, SUCCESS, <<>>))
    /\ UNCHANGED <<flags, mutexInterface, eventGroup, testData, latch, obs, performedActions,
                   config, acqTasks, notifyTasks, calls, prog, hist>>

ProcessData(t) == ProcessData_Take(t) \/ ProcessData_Set(t) \/ ProcessData_Give(t)

\* faulty variant of the function below: only the first sample is copied
GetDataResult_Truncated(dataType) ==
    IF initialized /\ dataProcessed /\ dataType \in DOMAIN testData
    THEN Result("getData", TRUE, SUCCESS, SubSeq(testData[dataType], 1, 1))
    ELSE Result("getData", FALSE, SUCCESS, <<>>)

\* faulty variant of the function below: the processed flag is not consulted
GetDataResult_Unprocessed(dataType) ==
    IF initialized /\ dataType \in DOMAIN testData
    THEN Result("getData", TRUE, SUCCESS, testData[dataType])
    ELSE Result("getData", FALSE, SUCCESS, <<>>)

\* DataResult result = {false, {}}; filled in under the instance lock
GetDataResult(dataType) ==
    IF ~initialized THEN Result("getData", FALSE, SUCCESS, <<>>)
    ELSE IF ~dataProcessed THEN Result("getData", FALSE, SUCCESS, <<>>)
    ELSE IF dataType \in DOMAIN testData
         THEN Result("getData", TRUE, SUCCESS, testData[dataType])
         ELSE Result("getData", FALSE, SUCCESS, <<>>)

GetData_Take(t) ==
    /\ pc[t] = "get_take"
    /\ mutexInstance = NoTask
    /\ mutexInstance' = t
    /\ Goto(t, "get_read")
    /\ UNCHANGED <<flags, mutexInterface, eventGroup, testData, latch, obs, performedActions,
                   config, acqTasks, notifyTasks, calls, prog, hist>>

\* the local variable result is kept in arg[t].y
GetData_Read(t) ==
    /\ pc[t] = "get_read"
    /\ arg' = [arg EXCEPT ![t].y = GetDataResult(arg[t].x)]
    /\ pc' = [pc EXCEPT ![t] = "get_give"]
    /\ UNCHANGED <<ret, phase>>
    /\ UNCHANGED <<flags, locks, eventGroup, testData, latch, obs, performedActions,
                   config, acqTasks, notifyTasks, calls, prog, hist>>

\* faulty variant of the step below: the instance lock is kept on a failure
GetData_Give_HeldOnFailure(t) ==
    /\ pc[t] = "get_give"
    /\ mutexInstance' = IF arg[t].y.ok THEN NoTask ELSE mutexInstance
    /\ Return(t, arg[t].y)
    /\ UNCHANGED <<flags, mutexInterface, eventGroup, testData, latch, obs, performedActions,
                   config, acqTasks, notifyTasks, calls, prog, hist>>

\* xSemaphoreGive(mutexInstance); return result
GetData_Give(t) ==
    /\ pc[t] = "get_give"
    /\ mutexInstance' = NoTask
    /\ Return(t, arg[t].y)
    /\ UNCHANGED <<flags, mutexInterface, eventGroup, testData, latch, obs, performedActions,
                   config, acqTasks, notifyTasks, calls, prog, hist>>

GetData(t) == GetData_Take(t) \/ GetData_Read(t) \/ GetData_Give(t)

(***************************************************************************)
(* performAction(actionId, actionParam)                                    *)
(***************************************************************************)
\* faulty variant of the step below: the initialization check is missing
PerformAction_CheckInit_Missing(t) ==
    /\ pc[t] = "act_init"
    /\ Goto(t, "act_take")
    /\ UNCHANGED <<flags, locks, eventGroup, testData, latch, obs, performedActions,
                   config, acqTasks, notifyTasks, calls, prog, hist>>

\* if (!initialized) return ErrorCode::NOT_INITIALIZED
PerformAction_CheckInit(t) ==
    /\ pc[t] = "act_init"
    /\ IF ~initialized
       THEN Return(t, Result("performAction", FALSE, NOT_INITIALIZED, <<>>))
       ELSE Goto(t, "act_take")
    /\ UNCHANGED <<flags, locks, eventGroup, testData, latch, obs, performedActions,
                   config, acqTasks, notifyTasks, calls, prog, hist>>

PerformAction_Take(t) ==
    /\ pc[t] = "act_take"
    /\ mutexInstance = NoTask
    /\ mutexInstance' = t
    /\ Goto(t, "act_push")
    /\ UNCHANGED <<flags, mutexInterface, eventGroup, testData, latch, obs, performedActions,
                   config, acqTasks, notifyTasks, calls, prog, hist>>

\* faulty variant of the step below: the action goes on to request data on
\* the bus while the instance lock is held
PerformAction_Push_ThenRequest(t) ==
    /\ pc[t] = "act_push"
    /\ performedActions' = Append(performedActions, <<arg[t].x, arg[t].y>>)
    /\ Goto(t, "req_take")
    /\ UNCHANGED <<flags, locks, eventGroup, testData, latch, obs,
                   config, acqTasks, notifyTasks, calls, prog, hist>>

\* performedActions.push_back({actionId, actionParam})
PerformAction_Push(t) ==
    /\ pc[t] = "act_push"
    /\ performedActions' = Append(performedActions, <<arg[t].x, arg[t].y>>)
    /\ Goto(t, "act_notify")
    /\ UNCHANGED <<flags, locks, eventGroup, testData, latch, obs,
                   config, acqTasks, notifyTasks, calls, prog, hist>>

\* faulty variant of the step below: the notification carries actionParam
PerformAction_Notify_WrongPayload(t) ==
    /\ pc[t] = "act_notify"
    /\ notifyTasks' = NotifyEvent(STATE_CHANGED, SUCCESS, arg[t].y, FALSE)
    /\ owed' = Owe(STATE_CHANGED, SUCCESS, arg[t].y)
    /\ Goto(t, "act_give")
    /\ UNCHANGED <<flags, locks, eventGroup, testData, latch, obs, performedActions,
                   config, acqTasks, calls, prog,
                   suppressed, injected, cfg, initStarted, initReturned, wasReset>>

\* notifyEvent(EventType::STATE_CHANGED, ErrorCode::SUCCESS, actionId)
PerformAction_Notify(t) ==
    /\ pc[t] = "act_notify"
    /\ notifyTasks' = NotifyEvent(STATE_CHANGED, SUCCESS, arg[t].x, FALSE)
    /\ owed' = Owe(STATE_CHANGED, SUCCESS, arg[t].x)
    /\ Goto(t, "act_give")
    /\ UNCHANGED <<flags, locks, eventGroup, testData, latch, obs, performedActions,
                   config, acqTasks, calls, prog,
                   suppressed, injected, cfg, initStarted, initReturned, wasReset>>

\* xSemaphoreGive(mutexInstance); return ErrorCode::SUCCESS
PerformAction_Give(t) ==
    /\ pc[t] = "act_give"
    /\ mutexInstance' = NoTask
    /\ Return(t, Result("performAction", TRUE, SUCCESS, <<>>))
    /\ UNCHANGED <<flags, mutexInterface, eventGroup, testData, latch, obs, performedActions,
                   config, acqTasks, notifyTasks, calls, prog, hist>>

PerformAction(t) ==
    \/ PerformAction_CheckInit(t) \/ PerformAction_Take(t) \/ PerformAction_Push(t)
    \/ PerformAction_Notify(t) \/ PerformAction_Give(t)

(***************************************************************************)
(* registerCallback(callback), unregisterCallbacks(),                      *)
(* setEventNotification(eventType, enable)                                 *)
(***************************************************************************)
RegisterCallback_Take(t) ==
    /\ pc[t] = "reg_take"
    /\ mutexInstance = NoTask
    /\ mutexInstance' = t
    /\ Goto(t, "reg_push")
    /\ UNCHANGED <<flags, mutexInterface, eventGroup, testData, latch, obs, performedActions,
                   config, acqTasks, notifyTasks, calls, prog, hist>>

\* callbacks.push_back(callback)
RegisterCallback_Push(t) ==
    /\ pc[t] = "reg_push"
    /\ callbacks' = Append(callbacks, arg[t].x)
    /\ owed' = Forgive(1, owed)
    /\ notifyTasks' = MarkStale
    /\ suppressed' = FALSE
    /\ Goto(t, "reg_give")
    /\ UNCHANGED <<flags, locks, eventGroup, testData, latch, eventsEnabled, performedActions,
                   config, acqTasks, calls, prog,
                   injected, cfg, initStarted, initReturned, wasReset>>

RegisterCallback_Give(t) ==
    /\ pc[t] = "reg_give"
    /\ mutexInstance' = NoTask
    /\ Return(t, Result("registerCallback", TRUE, SUCCESS, <<>>))
    /\ UNCHANGED <<flags, mutexInterface, eventGroup, testData, latch, obs, performedActions,
                   config, acqTasks, notifyTasks, calls, prog, hist>>

RegisterCallback(t) ==
    RegisterCallback_Take(t) \/ RegisterCallback_Push(t) \/ RegisterCallback_Give(t)

UnregisterCallbacks_Take(t) ==
    /\ pc[t] = "unreg_take"
    /\ mutexInstance = NoTask
    /\ mutexInstance' = t
    /\ Goto(t, "unreg_clear")
    /\ UNCHANGED <<flags, mutexInterface, eventGroup, testData, latch, obs, performedActions,
                   config, acqTasks, notifyTasks, calls, prog, hist>>

\* faulty variant of the step below: only the last observer is removed
UnregisterCallbacks_Clear_Partial(t) ==
    /\ pc[t] = "unreg_clear"
    /\ callbacks' = SubSeq(callbacks, 1, Len(callbacks) - 1)
    /\ owed' = Forgive(1, owed)
    /\ notifyTasks' = MarkStale
    /\ Goto(t, "unreg_give")
    /\ UNCHANGED <<flags, locks, eventGroup, testData, latch, eventsEnabled, performedActions,
                   config, acqTasks, calls, prog,
                   suppressed, injected, cfg, initStarted, initReturned, wasReset>>

\* callbacks.clear()
UnregisterCallbacks_Clear(t) ==
    /\ pc[t] = "unreg_clear"
    /\ callbacks' = <<>>
    /\ owed' = Forgive(1, owed)
    /\ notifyTasks' = MarkStale
    /\ Goto(t, "unreg_give")
    /\ UNCHANGED <<flags, locks, eventGroup, testData, latch, eventsEnabled, performedActions,
                   config, acqTasks, calls, prog,
                   suppressed, injected, cfg, initStarted, initReturned, wasReset>>

\* xSemaphoreGive(mutexInstance); return ErrorCode::SUCCESS
UnregisterCallbacks_Give(t) ==
    /\ pc[t] = "unreg_give"
    /\ mutexInstance' = NoTask
    /\ suppressed' = TRUE
    /\ Return(t, Result("unregisterCallbacks", TRUE, SUCCESS, <<>>))
    /\ UNCHANGED <<flags, mutexInterface, eventGroup, testData, latch, obs, performedActions,
                   config, acqTasks, notifyTasks, calls, prog,
                   owed, injected, cfg, initStarted, initReturned, wasReset>>

UnregisterCallbacks(t) ==
    UnregisterCallbacks_Take(t) \/ UnregisterCallbacks_Clear(t) \/ UnregisterCallbacks_Give(t)

\* size_t getCallbackCount() const
GetCallbackCount == Len(callbacks)

\* if (static_cast<int>(eventType) >= 5) return INVALID_PARAMETER;
\* eventsEnabled[static_cast<int>(eventType)] = enable
SetEventNotification(t) ==
    /\ pc[t] = "sev_set"
    /\ IF arg[t].x >= NumEventTypes
       THEN /\ UNCHANGED eventsEnabled
            /\ Return(t, Result("setEventNotification", FALSE, INVALID_PARAMETER, <<>>))
       ELSE /\ IF arg[t].x \in EventTypes
               THEN eventsEnabled' = [eventsEnabled EXCEPT ![arg[t].x] = arg[t].y]
               \* a negative index passes the test above and the store lands
               \* outside bool eventsEnabled[5] (undefined behaviour): the
               \* flags are left alone or one of them is overwritten
               ELSE eventsEnabled' \in
                        {eventsEnabled} \cup
                        {[eventsEnabled EXCEPT ![e] = arg[t].y] : e \in EventTypes}
            /\ Return(t, Result("setEventNotification", TRUE, SUCCESS, <<>>))
    /\ UNCHANGED <<flags, locks, eventGroup, testData, latch, callbacks, performedActions,
                   config, acqTasks, notifyTasks, calls, prog, hist>>

(***************************************************************************)
(* Test helpers: setTestData, injectError, reset                           *)
(***************************************************************************)
SetTestData_Take(t) ==
    /\ pc[t] = "std_take"
    /\ mutexInstance = NoTask
    /\ mutexInstance' = t
    /\ Goto(t, "std_set")
    /\ UNCHANGED <<flags, mutexInterface, eventGroup, testData, latch, obs, performedActions,
                   config, acqTasks, notifyTasks, calls, prog, hist>>

\* testData[dataType] = values; xSemaphoreGive(mutexInstance)
SetTestData_Set(t) ==
    /\ pc[t] = "std_set"
    /\ testData' = Put(testData, arg[t].x, arg[t].y)
    /\ cfg' = Put(cfg, arg[t].x, arg[t].y)
    /\ mutexInstance' = NoTask
    /\ Return(t, Result("setTestData", TRUE, SUCCESS, <<>>))
    /\ UNCHANGED <<flags, mutexInterface, eventGroup, latch, obs, performedActions,
                   config, acqTasks, notifyTasks, calls, prog,
                   owed, suppressed, injected, initStarted, initReturned, wasReset>>

SetTestData(t) == SetTestData_Take(t) \/ SetTestData_Set(t)

\* nextError = error; shouldFailNext = true
InjectError(t) ==
    /\ pc[t] = "inj_set"
    /\ nextError' = arg[t].x
    /\ shouldFailNext' = TRUE
    /\ injected' = arg[t].x
    /\ Return(t, Result("injectError", TRUE, SUCCESS, <<>>))
    /\ UNCHANGED <<flags, locks, eventGroup, testData, obs, performedActions,
                   config, acqTasks, notifyTasks, calls, prog,
                   owed, suppressed, cfg, initStarted, initReturned, wasReset>>

Reset_Take(t) ==
    /\ pc[t] = "rst_take"
    /\ mutexInstance = NoTask
    /\ mutexInstance' = t
    /\ Goto(t, "rst_clear")
    /\ UNCHANGED <<flags, mutexInterface, eventGroup, testData, latch, obs, performedActions,
                   config, acqTasks, notifyTasks, calls, prog, hist>>

\* faulty variant of the step below: reset() also empties the observer list
\* and cancels the deferred acquisitions
Reset_Clear_Cancelling(t) ==
    /\ pc[t] = "rst_clear"
    /\ initialized' = FALSE /\ dataRequested' = FALSE /\ dataProcessed' = FALSE
    /\ testData' = EmptyMap
    /\ performedActions' = <<>>
    /\ nextError' = SUCCESS /\ shouldFailNext' = FALSE
    /\ cfg' = EmptyMap /\ injected' = SUCCESS /\ wasReset' = TRUE
    /\ initStarted' = FALSE /\ initReturned' = 0
    /\ pc' = [pc EXCEPT ![t] = "rst_bits"]
    /\ phase' = [u \in Tasks |-> "idle"]
    /\ callbacks' = <<>>
    /\ acqTasks' = [acqTasks EXCEPT !.delay = 0]
    /\ UNCHANGED <<locks, eventGroup, eventsEnabled, config, arg, ret, notifyTasks, calls,
                   prog, owed, suppressed>>

\* initialized = dataRequested = dataProcessed = false; testData.clear();
\* performedActions.clear(); nextError = SUCCESS; shouldFailNext = false
Reset_Clear(t) ==
    /\ pc[t] = "rst_clear"
    /\ initialized' = FALSE /\ dataRequested' = FALSE /\ dataProcessed' = FALSE
    /\ testData' = EmptyMap
    /\ performedActions' = <<>>
    /\ nextError' = SUCCESS /\ shouldFailNext' = FALSE
    /\ cfg' = EmptyMap /\ injected' = SUCCESS /\ wasReset' = TRUE
    /\ initStarted' = FALSE /\ initReturned' = 0
    /\ pc' = [pc EXCEPT ![t] = "rst_bits"]
    /\ phase' = [u \in Tasks |-> "idle"]
    /\ UNCHANGED <<locks, eventGroup, obs, config, arg, ret, acqTasks, notifyTasks, calls,
                   prog, owed, suppressed>>

\* faulty variant of the step below: reset() deletes the event group and
\* creates a new one
Reset_Bits_Recreating(t) ==
    /\ pc[t] = "rst_bits"
    /\ eventGroup' = {}
    /\ handles' = [handles EXCEPT !.eventGroup = handles.eventGroup + 1]
    /\ kernelObjects' = (kernelObjects \ {handles.eventGroup}) \cup {handles.eventGroup + 1}
    /\ mutexInstance' = NoTask
    /\ Return(t, Result("reset", TRUE, SUCCESS, <<>>))
    /\ UNCHANGED <<flags, mutexInterface, testData, latch, obs, performedActions,
                   initDelay, dataDelay, waitTicks, acqTasks, notifyTasks, calls, prog, hist>>

\* xEventGroupClearBits(eventGroup, INIT_COMPLETE_BIT | DATA_READY_BIT | ERROR_BIT);
\* xSemaphoreGive(mutexInstance)
Reset_Bits(t) ==
    /\ pc[t] = "rst_bits"
    /\ eventGroup' = eventGroup \ {INIT_COMPLETE_BIT, DATA_READY_BIT, ERROR_BIT}
    /\ mutexInstance' = NoTask
    /\ Return(t, Result("reset", TRUE, SUCCESS, <<>>))
    /\ UNCHANGED <<flags, mutexInterface, testData, latch, obs, performedActions,
                   config, acqTasks, notifyTasks, calls, prog, hist>>

Reset(t) == Reset_Take(t) \/ Reset_Clear(t) \/ Reset_Bits(t)

(***************************************************************************)
(* getMutexInstance(), getMutexInterface(), getEventGroup(), and the       *)
(* destructor                                                              *)
(***************************************************************************)
GetMutexInstance  == handles.mutexInstance
GetMutexInterface == handles.mutexInterface
GetEventGroup     == handles.eventGroup

\* ~MockDeviceInstance(), run by the task that owns the instance once no call
\* is in progress: each handle that is not null is deleted.  The task has
\* no instance to call afterwards.
Destructor(t) ==
    /\ \A u \in Tasks : pc[u] = "idle"
    /\ kernelObjects' = kernelObjects \
           {h \in {handles.mutexInstance, handles.mutexInterface, handles.eventGroup} :
               h # NULL}
    /\ pc' = [pc EXCEPT ![t] = "gone"]
    /\ UNCHANGED <<flags, locks, eventGroup, testData, latch, obs, performedActions,
                   initDelay, dataDelay, waitTicks, handles, arg, ret, acqTasks,
                   notifyTasks, calls, phase, prog, hist>>

(***************************************************************************)
(* IDeviceInstance::isValidDataType(dataType)                              *)
(***************************************************************************)
\* faulty variant of the function below: the sentinel is accepted
IsValidDataType_Inclusive(dataType) == dataType >= 0 /\ dataType <= NUM_TYPES

\* return dataType >= 0 && dataType < static_cast<int>(DeviceDataType::NUM_TYPES)
IsValidDataType(dataType) == dataType >= 0 /\ dataType < NUM_TYPES

\* the static function, called by task t; it reads no member
IsValidDataType_Eval(t) ==
    /\ pc[t] = "valid_eval"
    /\ Return(t, Result("isValidDataType", IsValidDataType(arg[t].x), SUCCESS, <<>>))
    /\ UNCHANGED <<flags, locks, eventGroup, testData, latch, obs, performedActions,
                   config, acqTasks, notifyTasks, calls, prog, hist>>

(***************************************************************************)
(* Client programs                                                         *)
(***************************************************************************)
WaitTimes == {ShortTicks, portMAX_DELAY}

\* history argument of initialize(): 1 if the device is initialized at the call
Again == IF initialized THEN 1 ELSE 0

\* A free client: any operation of the acquisition interface, any argument
Api_Initialize(t)  == Begin(t, "initialize", Again, 0)
Api_WaitInit(t)    == \E ticks \in WaitTimes : Begin(t, "waitForInitialization", ticks, 0)
Api_RequestData(t) == Begin(t, "requestData", 0, 0)
Api_WaitForData(t) == \E ticks \in WaitTimes : Begin(t, "waitForData", ticks, 0)
Api_ProcessData(t) == Begin(t, "processData", 0, 0)
Api_GetData(t)     == \E d \in DataTypes : Begin(t, "getData", d, 0)
Api_PerformAction(t) ==
    \E id \in ActionIds, param \in ActionParams : Begin(t, "performAction", id, param)
Api_SetTestData(t) ==
    \E d \in DataTypes, values \in SampleSets : Begin(t, "setTestData", d, values)
Api_InjectError(t) == \E e \in InjectCodes : Begin(t, "injectError", e, 0)
Api_Reset(t)       == Begin(t, "reset", 0, 0)
Api_Register(t)    == \E o \in Observers : Begin(t, "registerCallback", o, 0)
Api_Unregister(t)  == Begin(t, "unregisterCallbacks", 0, 0)
\* the event types this client's operations trigger, and one invalid type
GatedTypes == {INITIALIZED, DATA_READY, ERROR_OCCURRED, NumEventTypes}
Api_SetEvent(t)    ==
    \E e \in GatedTypes, enable \in BOOLEAN : Begin(t, "setEventNotification", e, enable)

\* a type below the enumeration, two valid types and the first type above it
AnyTypes == {-1, STATE_CHANGED, CUSTOM_EVENT, NumEventTypes}
Api_SetEventAny(t) ==
    \E e \in AnyTypes, enable \in BOOLEAN : Begin(t, "setEventNotification", e, enable)

\* the ints around the valid range, 999 and the two ends of int
Probes == (-MaxProbe .. NUM_TYPES + MaxProbe) \cup {999, -(2^30) - 2^30, 2^30 + (2^30 - 1)}
Api_IsValidDataType(t) ==
    /\ \E v \in Probes : Begin(t, "isValidDataType", v, 0)
    /\ UNCHANGED <<calls, prog>>

\* bool waitForData(): the wait has no timeout
Api_WaitForDataForever(t) == Begin(t, "waitForData", portMAX_DELAY, 0)

\* the device's contexts that are alive
Pending == Len(notifyTasks) + acqTasks.delay + acqTasks.notify

\* a free client issues at most n calls, and issues none while more than
\* MaxPending contexts of the device are alive
Budget(n) ==
    /\ calls < n
    /\ Pending <= MaxPending
    /\ calls' = calls + 1
    /\ UNCHANGED prog

(***************************************************************************)
(* Spec: one task configures the device and drives the acquisition cycle   *)
(* (test_data_acquisition_flow .. test_multiple_data_types,                *)
(* test_error_injection); no observer is registered                        *)
(***************************************************************************)
Next ==
    \/ Budget(MaxCalls) /\ Api_Initialize(MainTask)
    \/ Budget(MaxCalls) /\ Api_RequestData(MainTask)
    \/ Budget(MaxCalls) /\ Api_WaitForData(MainTask)
    \/ Budget(MaxCalls) /\ Api_ProcessData(MainTask)
    \/ Budget(MaxCalls) /\ Api_GetData(MainTask)
    \/ Budget(MaxCalls) /\ Api_SetTestData(MainTask)
    \/ Budget(MaxCalls) /\ Api_InjectError(MainTask)
    \/ Initialize(MainTask)
    \/ RequestData(MainTask)
    \/ WaitForData_Wake(MainTask)
    \/ WaitForData_Timeout(MainTask)
    \/ ProcessData(MainTask)
    \/ GetData(MainTask)
    \/ SetTestData(MainTask)
    \/ InjectError(MainTask)
    \/ Acquire_SetBits
    \/ Acquire_Notify
    \/ \E i \in 1 .. Len(notifyTasks) : NotifyTask_Begin(i)
    \/ \E i \in 1 .. Len(notifyTasks) : NotifyTask_End(i)

Spec == Init /\ [][Next]_vars

(***************************************************************************)
(* SpecEvents: one task registers observers, gates event types and         *)
(* triggers events (test_callbacks_basic .. test_unregister_callbacks,     *)
(* test_error_injection)                                                   *)
(***************************************************************************)
NextEvents ==
    \/ Budget(MaxEventCalls) /\ Api_Register(MainTask)
    \/ Budget(MaxEventCalls) /\ Api_Unregister(MainTask)
    \/ Budget(MaxEventCalls) /\ Api_SetEvent(MainTask)
    \/ Budget(MaxEventCalls) /\ Api_Initialize(MainTask)
    \/ Budget(MaxEventCalls) /\ Api_InjectError(MainTask)
    \/ Budget(MaxEventCalls) /\ Api_RequestData(MainTask)
    \/ RegisterCallback(MainTask)
    \/ UnregisterCallbacks(MainTask)
    \/ SetEventNotification(MainTask)
    \/ Initialize(MainTask)
    \/ InjectError(MainTask)
    \/ RequestData(MainTask)
    \/ Acquire_SetBits
    \/ Acquire_Notify
    \/ \E i \in 1 .. Len(notifyTasks) : NotifyTask_Begin(i)
    \/ \E i \in 1 .. Len(notifyTasks) : NotifyTask_Callback(i)
    \/ \E i \in 1 .. Len(notifyTasks) : NotifyTask_End(i)

SpecEvents == Init /\ [][NextEvents]_vars

(***************************************************************************)
(* SpecActions: one task injects errors, performs actions and resets the   *)
(* device (test_error_injection, test_perform_action, verifyErrorHandling);*)
(* no observer is registered                                               *)
(***************************************************************************)
NextActions ==
    \/ Budget(MaxEventCalls) /\ Api_Initialize(MainTask)
    \/ Budget(MaxEventCalls) /\ Api_InjectError(MainTask)
    \/ Budget(MaxEventCalls) /\ Api_RequestData(MainTask)
    \/ Budget(MaxEventCalls) /\ Api_PerformAction(MainTask)
    \/ Budget(MaxEventCalls) /\ Api_Reset(MainTask)
    \/ Initialize(MainTask)
    \/ InjectError(MainTask)
    \/ RequestData(MainTask)
    \/ PerformAction(MainTask)
    \/ Reset(MainTask)
    \/ Acquire_SetBits
    \/ Acquire_Notify
    \/ \E i \in 1 .. Len(notifyTasks) : NotifyTask_Begin(i)
    \/ \E i \in 1 .. Len(notifyTasks) : NotifyTask_End(i)

SpecActions == Init /\ [][NextActions]_vars

(***************************************************************************)
(* Setup of the concurrency tests by the main task: initialize(), then     *)
(* setTestData(TEMPERATURE, ...), then possibly injectError(...); the      *)
(* worker tasks are created afterwards                                     *)
(***************************************************************************)
Setup_Initialize ==
    /\ iter[MainTask] = 0
    /\ Begin(MainTask, "initialize", Again, 0)
    /\ iter' = [iter EXCEPT ![MainTask] = 1]
    /\ UNCHANGED <<calls, successCount, errorCount>>

Setup_SetTestData ==
    /\ iter[MainTask] = 1
    /\ \E values \in SampleSets : Begin(MainTask, "setTestData", TEMPERATURE, values)
    /\ iter' = [iter EXCEPT ![MainTask] = 2]
    /\ UNCHANGED <<calls, successCount, errorCount>>

Setup_InjectError ==
    /\ iter[MainTask] = 2
    /\ \A w \in Workers : pc[w] = "idle" /\ ret[w] = NoResult /\ iter[w] = 0
    /\ \E e \in InjectCodes : Begin(MainTask, "injectError", e, 0)
    /\ iter' = [iter EXCEPT ![MainTask] = 3]
    /\ UNCHANGED <<calls, successCount, errorCount>>

SetupDone == iter[MainTask] \in {2, 3} /\ pc[MainTask] = "idle"

(***************************************************************************)
(* SpecTasks: after the setup, the worker tasks call the operations of the *)
(* acquisition cycle in any order, concurrently                            *)
(***************************************************************************)
NextTasks ==
    \/ Setup_Initialize
    \/ Setup_SetTestData
    \/ Setup_InjectError
    \/ Initialize(MainTask)
    \/ SetTestData(MainTask)
    \/ InjectError(MainTask)
    \/ \E w \in Workers : SetupDone /\ Budget(MaxTaskCalls) /\ Api_RequestData(w)
    \/ \E w \in Workers : SetupDone /\ Budget(MaxTaskCalls) /\ Api_WaitForData(w)
    \/ \E w \in Workers : SetupDone /\ Budget(MaxTaskCalls) /\ Api_ProcessData(w)
    \/ \E w \in Workers : SetupDone /\ Budget(MaxTaskCalls) /\ Api_GetData(w)
    \/ \E w \in Workers : RequestData(w)
    \/ \E w \in Workers : WaitForData_Wake(w)
    \/ \E w \in Workers : WaitForData_Timeout(w)
    \/ \E w \in Workers : ProcessData(w)
    \/ \E w \in Workers : GetData(w)
    \/ Acquire_SetBits
    \/ Acquire_Notify
    \/ \E i \in 1 .. Len(notifyTasks) : NotifyTask_Begin(i)
    \/ \E i \in 1 .. Len(notifyTasks) : NotifyTask_End(i)

SpecTasks == Init /\ [][NextTasks]_vars

(***************************************************************************)
(* SpecCycles: the worker tasks of verifyConcurrentAccess and              *)
(* test_concurrent_access: each runs CyclesPerWorker times                 *)
(*   if (requestData()) if (waitForData(ticks) == SUCCESS)                 *)
(*       { processData(); result = getData(TEMPERATURE); }                 *)
(* and tallies the outcome of the cycle                                    *)
(***************************************************************************)
InitCycles == Construction /\ waitTicks \in {ShortTicks, LongTicks}

\* (a worker starts a cycle only while at most MaxPending contexts of the
\* device are alive)
Worker_Request(w) ==
    /\ SetupDone
    /\ iter[w] < CyclesPerWorker
    /\ Pending <= MaxPending
    /\ ret[w].op = "none"
    /\ Begin(w, "requestData", 0, 0)
    /\ UNCHANGED <<calls, prog>>

Worker_Wait(w) ==
    /\ ret[w].op = "requestData" /\ ret[w].ok
    /\ Begin(w, "waitForData", waitTicks, 0)
    /\ UNCHANGED <<calls, prog>>

Worker_Process(w) ==
    /\ ret[w].op = "waitForData" /\ ret[w].code = SUCCESS
    /\ Begin(w, "processData", 0, 0)
    /\ UNCHANGED <<calls, prog>>

Worker_Get(w) ==
    /\ ret[w].op = "processData"
    /\ Begin(w, "getData", TEMPERATURE, 0)
    /\ UNCHANGED <<calls, prog>>

\* the cycle ended: (*success)++ or (*errors)++; vTaskDelay(pdMS_TO_TICKS(1))
CycleEnded(w) ==
    \/ ret[w].op = "requestData" /\ ~ret[w].ok
    \/ ret[w].op = "waitForData" /\ ret[w].code # SUCCESS
    \/ ret[w].op = "getData"

Worker_Tally(w) ==
    /\ pc[w] = "idle"
    /\ CycleEnded(w)
    /\ IF ret[w].op = "getData" /\ ret[w].ok
       THEN successCount' = successCount + 1 /\ UNCHANGED errorCount
       ELSE errorCount' = errorCount + 1 /\ UNCHANGED successCount
    /\ iter' = [iter EXCEPT ![w] = @ + 1]
    /\ ret' = [ret EXCEPT ![w] = NoResult]
    /\ UNCHANGED <<flags, locks, eventGroup, testData, latch, obs, performedActions,
                   config, pc, arg, acqTasks, notifyTasks, calls, phase, hist>>

\* every worker has run all its cycles
AllDone == \A w \in Workers : iter[w] = CyclesPerWorker /\ pc[w] = "idle"

NextCycles ==
    \/ Setup_Initialize
    \/ Setup_SetTestData
    \/ Setup_InjectError
    \/ Initialize(MainTask)
    \/ SetTestData(MainTask)
    \/ InjectError(MainTask)
    \/ \E w \in Workers : Worker_Request(w)
    \/ \E w \in Workers : Worker_Wait(w)
    \/ \E w \in Workers : Worker_Process(w)
    \/ \E w \in Workers : Worker_Get(w)
    \/ \E w \in Workers : Worker_Tally(w)
    \/ \E w \in Workers : RequestData(w)
    \/ \E w \in Workers : WaitForData_Wake(w)
    \/ \E w \in Workers : WaitForData_Timeout(w)
    \/ \E w \in Workers : ProcessData(w)
    \/ \E w \in Workers : GetData(w)
    \/ Acquire_SetBits
    \/ Acquire_Notify
    \/ \E i \in 1 .. Len(notifyTasks) : NotifyTask_Begin(i)
    \/ \E i \in 1 .. Len(notifyTasks) : NotifyTask_End(i)

SpecCycles == InitCycles /\ [][NextCycles]_vars

(***************************************************************************)
(* SpecWaits: the main task initializes the device, injects errors and     *)
(* requests data while the worker tasks wait for the initialization and    *)
(* for the data                                                            *)
(* (test_initialization_wait_with_timeout, verifyDataAcquisitionContract,  *)
(* verifyErrorHandling)                                                    *)
(***************************************************************************)
NextWaits ==
    \/ Budget(MaxEventCalls) /\ Api_Initialize(MainTask)
    \/ Budget(MaxEventCalls) /\ Api_RequestData(MainTask)
    \/ Budget(MaxEventCalls) /\ Api_InjectError(MainTask)
    \/ \E w \in Workers : Budget(MaxEventCalls) /\ Api_WaitInit(w)
    \/ \E w \in Workers : Budget(MaxEventCalls) /\ Api_WaitForData(w)
    \/ Initialize(MainTask)
    \/ RequestData(MainTask)
    \/ InjectError(MainTask)
    \/ \E w \in Workers : WaitForInitialization_Wake(w)
    \/ \E w \in Workers : WaitForInitialization_Timeout(w)
    \/ \E w \in Workers : WaitForData_Wake(w)
    \/ \E w \in Workers : WaitForData_Timeout(w)
    \/ Acquire_SetBits
    \/ Acquire_Notify
    \/ \E i \in 1 .. Len(notifyTasks) : NotifyTask_Begin(i)
    \/ \E i \in 1 .. Len(notifyTasks) : NotifyTask_End(i)

SpecWaits == Init /\ [][NextWaits]_vars

(***************************************************************************)
(* SpecLocks: two tasks use the two locks at the same time: the main task  *)
(* initializes the device, injects errors and performs actions             *)
(* (instance lock) while a peer task requests, processes and reads data    *)
(* (interface lock, instance lock)                                         *)
(***************************************************************************)
Peer == 1

NextLocks ==
    \/ Budget(MaxTaskCalls) /\ Api_Initialize(MainTask)
    \/ Budget(MaxTaskCalls) /\ Api_InjectError(MainTask)
    \/ Budget(MaxTaskCalls) /\ Api_PerformAction(MainTask)
    \/ Budget(MaxTaskCalls) /\ Api_RequestData(Peer)
    \/ Budget(MaxTaskCalls) /\ Api_ProcessData(Peer)
    \/ Budget(MaxTaskCalls) /\ Api_GetData(Peer)
    \/ Initialize(MainTask)
    \/ InjectError(MainTask)
    \/ PerformAction(MainTask)
    \/ RequestData(Peer)
    \/ ProcessData(Peer)
    \/ GetData(Peer)
    \/ Acquire_SetBits
    \/ Acquire_Notify
    \/ \E i \in 1 .. Len(notifyTasks) : NotifyTask_Begin(i)
    \/ \E i \in 1 .. Len(notifyTasks) : NotifyTask_End(i)

SpecLocks == Init /\ [][NextLocks]_vars

(***************************************************************************)
(* SpecCallbacks: one task registers observers, initializes the device and *)
(* performs actions; an observer returns normally or throws                *)
(* (test_callbacks_basic, test_callbacks_multiple_events)                  *)
(***************************************************************************)
NextCallbacks ==
    \/ Budget(MaxEventCalls) /\ Api_Register(MainTask)
    \/ Budget(MaxEventCalls) /\ Api_Initialize(MainTask)
    \/ Budget(MaxEventCalls) /\ Api_PerformAction(MainTask)
    \/ RegisterCallback(MainTask)
    \/ Initialize(MainTask)
    \/ PerformAction(MainTask)
    \/ \E i \in 1 .. Len(notifyTasks) : NotifyTask_Begin(i)
    \/ \E i \in 1 .. Len(notifyTasks) : NotifyTask_Callback(i)
    \/ \E i \in 1 .. Len(notifyTasks) : NotifyTask_Throw(i)
    \/ \E i \in 1 .. Len(notifyTasks) : NotifyTask_End(i)

SpecCallbacks == Init /\ [][NextCallbacks]_vars

(***************************************************************************)
(* SpecControl: one task performs actions, switches event notification on  *)
(* and off with any type value, and resets the device (test_perform_action,*)
(* test_event_notification_control); no observer is registered             *)
(***************************************************************************)
NextControl ==
    \/ Budget(MaxEventCalls) /\ Api_Initialize(MainTask)
    \/ Budget(MaxEventCalls) /\ Api_PerformAction(MainTask)
    \/ Budget(MaxEventCalls) /\ Api_SetEventAny(MainTask)
    \/ Budget(MaxEventCalls) /\ Api_Reset(MainTask)
    \/ Initialize(MainTask)
    \/ PerformAction(MainTask)
    \/ SetEventNotification(MainTask)
    \/ Reset(MainTask)
    \/ \E i \in 1 .. Len(notifyTasks) : NotifyTask_Begin(i)
    \/ \E i \in 1 .. Len(notifyTasks) : NotifyTask_End(i)

SpecControl == Init /\ [][NextControl]_vars

(***************************************************************************)
(* SpecResources: one task owns the instance, calls any operation on it    *)
(* and destroys it (setUp and tearDown of the tests, test_mutex_handles,   *)
(* test_event_group_handle, verifyResourceCreation)                        *)
(***************************************************************************)
NextResources ==
    \/ Budget(MaxOwnerCalls) /\ Api_Initialize(MainTask)
    \/ Budget(MaxOwnerCalls) /\ Api_WaitInit(MainTask)
    \/ Budget(MaxOwnerCalls) /\ Api_RequestData(MainTask)
    \/ Budget(MaxOwnerCalls) /\ Api_WaitForData(MainTask)
    \/ Budget(MaxOwnerCalls) /\ Api_ProcessData(MainTask)
    \/ Budget(MaxOwnerCalls) /\ Api_GetData(MainTask)
    \/ Budget(MaxOwnerCalls) /\ Api_PerformAction(MainTask)
    \/ Budget(MaxOwnerCalls) /\ Api_Register(MainTask)
    \/ Budget(MaxOwnerCalls) /\ Api_Unregister(MainTask)
    \/ Budget(MaxOwnerCalls) /\ Api_SetEventAny(MainTask)
    \/ Budget(MaxOwnerCalls) /\ Api_SetTestData(MainTask)
    \/ Budget(MaxOwnerCalls) /\ Api_InjectError(MainTask)
    \/ Budget(MaxOwnerCalls) /\ Api_Reset(MainTask)
    \/ Initialize(MainTask)
    \/ WaitForInitialization_Wake(MainTask)
    \/ WaitForInitialization_Timeout(MainTask)
    \/ RequestData(MainTask)
    \/ WaitForData_Wake(MainTask)
    \/ WaitForData_Timeout(MainTask)
    \/ ProcessData(MainTask)
    \/ GetData(MainTask)
    \/ PerformAction(MainTask)
    \/ RegisterCallback(MainTask)
    \/ UnregisterCallbacks(MainTask)
    \/ SetEventNotification(MainTask)
    \/ SetTestData(MainTask)
    \/ InjectError(MainTask)
    \/ Reset(MainTask)
    \/ Destructor(MainTask)
    \/ Acquire_SetBits
    \/ Acquire_Notify
    \/ \E i \in 1 .. Len(notifyTasks) : NotifyTask_Begin(i)
    \/ \E i \in 1 .. Len(notifyTasks) : NotifyTask_Callback(i)
    \/ \E i \in 1 .. Len(notifyTasks) : NotifyTask_End(i)

SpecResources == Init /\ [][NextResources]_vars

(***************************************************************************)
(* SpecValidate: two tasks validate data type numbers                      *)
(* (test_is_valid_data_type)                                               *)
(***************************************************************************)
NextValidate ==
    \/ \E t \in {MainTask, Peer} : Api_IsValidDataType(t)
    \/ \E t \in {MainTask, Peer} : IsValidDataType_Eval(t)

SpecValidate == Init /\ [][NextValidate]_vars

(***************************************************************************)
(* SpecLive: the main task initializes the device, injects errors and      *)
(* requests data; it and its peer wait for the data without a timeout      *)
(* (test_data_acquisition_flow, verifyDataAcquisitionContract).  The       *)
(* scheduler is fair: a task inside an operation, a MockDataAcq or         *)
(* MockNotify context, and a waiter whose bit is set, all run eventually;  *)
(* a client need not issue a further call.                                 *)
(***************************************************************************)
NextLive ==
    \/ Budget(MaxTaskCalls) /\ Api_Initialize(MainTask)
    \/ Budget(MaxTaskCalls) /\ Api_InjectError(MainTask)
    \/ Budget(MaxTaskCalls) /\ Api_RequestData(MainTask)
    \/ \E t \in {MainTask, Peer} : Budget(MaxTaskCalls) /\ Api_WaitForDataForever(t)
    \/ Initialize(MainTask)
    \/ InjectError(MainTask)
    \/ RequestData(MainTask)
    \/ \E t \in {MainTask, Peer} : WaitForData_Wake(t)
    \/ Acquire_SetBits
    \/ Acquire_Notify
    \/ \E i \in 1 .. Len(notifyTasks) : NotifyTask_Begin(i)
    \/ \E i \in 1 .. Len(notifyTasks) : NotifyTask_End(i)

FairScheduling ==
    /\ WF_vars(Initialize(MainTask))
    /\ WF_vars(InjectError(MainTask))
    /\ WF_vars(RequestData(MainTask))
    /\ \A t \in {MainTask, Peer} : WF_vars(WaitForData_Wake(t))
    /\ WF_vars(Acquire_SetBits)
    /\ WF_vars(Acquire_Notify)
    /\ WF_vars(\E i \in 1 .. Len(notifyTasks) : NotifyTask_Begin(i))
    /\ WF_vars(\E i \in 1 .. Len(notifyTasks) : NotifyTask_End(i))

SpecLive == Init /\ [][NextLive]_vars /\ FairScheduling

(***************************************************************************)
(* SpecDispatch: one task registers and unregisters observers, switches    *)
(* event types on and off and triggers INITIALIZED, while the MockNotify   *)
(* contexts run (test_callbacks_basic, test_event_notification_control,    *)
(* test_unregister_callbacks, verifyCallbackSupport)                       *)
(***************************************************************************)
NextDispatch ==
    \/ Budget(MaxEventCalls) /\ Api_Register(MainTask)
    \/ Budget(MaxEventCalls) /\ Api_Unregister(MainTask)
    \/ Budget(MaxEventCalls) /\ Api_SetEvent(MainTask)
    \/ Budget(MaxEventCalls) /\ Api_Initialize(MainTask)
    \/ RegisterCallback(MainTask)
    \/ UnregisterCallbacks(MainTask)
    \/ SetEventNotification(MainTask)
    \/ Initialize(MainTask)
    \/ \E i \in 1 .. Len(notifyTasks) : NotifyTask_Begin(i)
    \/ \E i \in 1 .. Len(notifyTasks) : NotifyTask_Callback(i)
    \/ \E i \in 1 .. Len(notifyTasks) : NotifyTask_Invalidated(i)
    \/ \E i \in 1 .. Len(notifyTasks) : NotifyTask_End(i)

SpecDispatch == Init /\ [][NextDispatch]_vars

(***************************************************************************)
(* Properties                                                              *)
(***************************************************************************)
\* C1: isInitialized() is false as long as no initialize() has been called,
\* it is true once an initialize() has returned, and it stays true however
\* many further initialize() calls return (the history restarts at reset()).
InitializedLifecycle ==
    /\ ~initStarted => ~IsInitialized
    /\ initReturned >= 1 => IsInitialized

\* a second initialize() has returned and the device is still initialized
InitializedLifecycle_Witness ==
    initReturned >= 2 /\ IsInitialized /\ pc[MainTask] = "idle"

\* C3: when a task has gone through requestData() (success), waitForData()
\* (success) and processData(), its getData(T) for a configured type T
\* returns success and exactly the samples last given to setTestData(T, ...).
CycleReturnsSamples ==
    [][\A t \in Tasks :
          (/\ pc[t] = "get_give" /\ pc'[t] = "idle"
           /\ phase[t] = "processed"
           /\ arg[t].x \in DOMAIN cfg)
          => (ret'[t].ok /\ ret'[t].values = cfg[arg[t].x])]_vars

\* a cycle has returned a two-sample set while both types are configured
CycleReturnsSamples_Witness ==
    /\ ret[MainTask].op = "getData" /\ ret[MainTask].ok
    /\ phase[MainTask] = "processed"
    /\ Len(ret[MainTask].values) = 2
    /\ DOMAIN cfg = DataTypes
    /\ cfg[TEMPERATURE] # cfg[HUMIDITY]

\* C2: when requestData() or performAction(id, param) finds the device not
\* initialized, the call returns at once with a failure (NOT_INITIALIZED for
\* performAction, whatever id and param), and it leaves the event bits, the
\* requested/processed flags, the action log and the error latch as they
\* were and creates no notification context.
UninitializedCallsRejected ==
    [][\A t \in Tasks :
          (~initialized /\ pc[t] \in {"req_init", "act_init"} /\ pc'[t] # pc[t])
          => /\ pc'[t] = "idle"
             /\ ~ret'[t].ok
             /\ arg[t].op = "performAction" => ret'[t].code = NOT_INITIALIZED
             /\ UNCHANGED <<eventGroup, dataRequested, dataProcessed, performedActions,
                            nextError, shouldFailNext, notifyTasks, acqTasks, owed>>]_vars

\* performAction() was rejected on a device that was reset while its error
\* latch is armed and its DATA_READY bit is set
UninitializedCallsRejected_Witness ==
    /\ ~initialized
    /\ ret[MainTask].op = "performAction" /\ ret[MainTask].code = NOT_INITIALIZED
    /\ shouldFailNext /\ nextError = DEVICE_BUSY
    /\ DATA_READY_BIT \in eventGroup

\* C4: a getData(T) that a task issues after its requestData() succeeded and
\* before its processData() of that cycle returns a failure, whatever the
\* other tasks do on the same instance.
NoDataBeforeProcess ==
    \A t \in Tasks :
        (ret[t].op = "getData" /\ phase[t] \in {"requested", "waited"}) => ~ret[t].ok

\* a task got a failure from getData() between its requestData() and its
\* processData()
NoDataBeforeProcess_Witness ==
    \E t \in Workers :
        ret[t].op = "getData" /\ phase[t] \in {"requested", "waited"} /\ ~ret[t].ok

\* the sum of iter[w] over the workers 1 .. n
RECURSIVE CyclesRun(_)
CyclesRun(n) == IF n = 0 THEN 0 ELSE iter[n] + CyclesRun(n - 1)

\* C5: the workers' cycles never deadlock: as long as a worker has not run
\* all its cycles some step of the system can be taken; every cycle that
\* ended was tallied once, as a success or as a failure, so that the two
\* counts add up to NumWorkers * CyclesPerWorker when all workers are done.
CyclesComplete ==
    /\ successCount + errorCount = CyclesRun(NumWorkers)
    /\ AllDone => successCount + errorCount = NumWorkers * CyclesPerWorker
    /\ AllDone \/ ENABLED NextCycles

\* all workers are done, with cycles of both outcomes
CyclesComplete_Witness ==
    AllDone /\ successCount >= 1 /\ errorCount >= 1 /\ Pending = 0

\* C6: with samples configured for TEMPERATURE, no error injected and the
\* timeout of test_concurrent_access, every requestData(), waitForData()
\* and getData() of the workers succeeds and the success count reaches
\* NumWorkers * CyclesPerWorker.
AllCyclesSucceed ==
    (waitTicks = LongTicks /\ TEMPERATURE \in DOMAIN cfg /\ nextError = SUCCESS) =>
        /\ \A w \in Workers :
              /\ ret[w].op = "requestData" => ret[w].ok
              /\ ret[w].op = "waitForData" => ret[w].code = SUCCESS
              /\ ret[w].op = "getData" => ret[w].ok
        /\ AllDone => successCount = NumWorkers * CyclesPerWorker

\* the notifications of type e still owed to observer o
OwedOfType(o, e) == {n \in DOMAIN owed[o] : n.type = e}

\* no notification context of the device is alive
Quiescent == notifyTasks = <<>> /\ acqTasks.delay = 0 /\ acqTasks.notify = 0

\* the steps of requestData() after the check of the error latch
PastLatch == {"req_take", "req_flags", "req_clear", "req_acquire", "req_notify", "req_give"}

\* C7: a requestData() that finds the error latch armed by injectError(E)
\* fails; every registration of an observer is then owed one ERROR_OCCURRED
\* notification carrying E if the event is enabled and none otherwise; no
\* ERROR_OCCURRED notification is delivered that is not owed, and none is
\* still owed when the notification contexts have ended.
InjectedErrorNotified ==
    /\ \A t \in Tasks :
          (pc[t] \in PastLatch \/ (ret[t].op = "requestData" /\ ret[t].ok))
          => injected = SUCCESS
    /\ \A o \in Observers :
          /\ \A n \in OwedOfType(o, ERROR_OCCURRED) :
                owed[o][n] > 0 /\ n.error \in InjectCodes
          /\ Quiescent => OwedOfType(o, ERROR_OCCURRED) = {}

\* the notification of an injected DEVICE_BUSY has been delivered to the
\* two registered observers
InjectedErrorNotified_Witness ==
    /\ ret[MainTask].op = "requestData" /\ ~ret[MainTask].ok
    /\ \E i \in 1 .. Len(notifyTasks) :
          /\ notifyTasks[i].notif = Notification(ERROR_OCCURRED, DEVICE_BUSY, 0)
          /\ notifyTasks[i].snap = <<1, 2>> /\ notifyTasks[i].idx = 3
          /\ ~notifyTasks[i].stale
    /\ \A o \in Observers : owed[o] = EmptyMap

\* C8: a trigger of an event type that is disabled owes no notification and
\* a trigger of an enabled type owes one to every registration; nothing is
\* delivered that is not owed and nothing is still owed when the notification
\* contexts have ended; setEventNotification(X, enable) changes the flag of X
\* only, and neither the pending notifications nor the observer list.
EventGating ==
    /\ [](\A o \in Observers :
            /\ \A n \in DOMAIN owed[o] : owed[o][n] > 0
            /\ Quiescent => owed[o] = EmptyMap)
    /\ [][\A t \in Tasks :
            (pc[t] = "sev_set" /\ pc'[t] = "idle")
            => /\ \A e \in EventTypes \ {arg[t].x} : eventsEnabled'[e] = eventsEnabled[e]
               /\ arg[t].x \in EventTypes => eventsEnabled'[arg[t].x] = arg[t].y
               /\ UNCHANGED <<notifyTasks, owed, callbacks>>]_vars

\* requestData() consumed an injected error while ERROR_OCCURRED was disabled
\* and an observer was registered: no notification was created, and the
\* INITIALIZED notification of the same observer was delivered
EventGating_Witness ==
    /\ ret[MainTask].op = "requestData" /\ ~ret[MainTask].ok
    /\ initialized /\ nextError = DEVICE_BUSY /\ ~shouldFailNext
    /\ ~eventsEnabled[ERROR_OCCURRED] /\ eventsEnabled[INITIALIZED]
    /\ callbacks = <<1>>
    /\ notifyTasks = <<>>
    /\ owed[1] = EmptyMap

\* C9: unregisterCallbacks() returns SUCCESS with the observer list empty, and
\* a notification triggered after it returned and before a registerCallback()
\* finds no observer: its context invokes no callback.
UnregisterSuppresses ==
    /\ \A t \in Tasks :
          ret[t].op = "unregisterCallbacks"
          => (ret[t].ok /\ ret[t].code = SUCCESS /\ GetCallbackCount = 0)
    /\ suppressed => GetCallbackCount = 0
    /\ \A i \in 1 .. Len(notifyTasks) :
          notifyTasks[i].supp => (notifyTasks[i].idx = 1 /\ notifyTasks[i].snap = <<>>)

\* after unregisterCallbacks() an event was triggered and its context walked
\* the observer list
UnregisterSuppresses_Witness ==
    /\ suppressed
    /\ \E i \in 1 .. Len(notifyTasks) :
          notifyTasks[i].supp /\ notifyTasks[i].stage = "loop"

\* C10: an initialize() call on a device that is already initialized triggers
\* no INITIALIZED notification.
InitializeIdempotent ==
    \A i \in 1 .. Len(notifyTasks) :
        ~(notifyTasks[i].notif.type = INITIALIZED /\ notifyTasks[i].again)

\* the acquisitions that have not yet asserted DATA_READY; MockDataAcq
\* contexts are created with equal priority and equal delay, so the one that
\* completes is the oldest
Outstanding == acqTasks.delay

\* C11: DATA_READY is asserted by a deferred acquisition only on behalf of the
\* most recent requestData(): when a MockDataAcq context sets the bit, no
\* acquisition of a newer request is outstanding and no newer requestData()
\* has cleared the bit and is about to start its acquisition.
DataReadyOnlyForLatest ==
    [][Outstanding' < Outstanding
          => (Outstanding = 1 /\ \A t \in Tasks : pc[t] # "req_acquire")]_vars

\* the bit is set while the acquisition of a newer request is outstanding
DataReadyOnlyForLatest_Witness ==
    /\ DATA_READY_BIT \in eventGroup
    /\ Outstanding = 1 /\ acqTasks.notify = 1
    /\ pc[MainTask] = "idle" /\ ret[MainTask].op = "requestData" /\ ret[MainTask].ok

\* C12: a requestData() that reaches its acquisition step while an earlier
\* acquisition is outstanding starts no second acquisition and fails.
BusyRequestRejected ==
    [][\A t \in Tasks :
          (pc[t] = "req_acquire" /\ pc'[t] # pc[t] /\ Outstanding > 0)
          => (Outstanding' = Outstanding /\ pc'[t] = "idle" /\ ~ret'[t].ok)]_vars

\* two acquisitions are outstanding after the second requestData() returned true
BusyRequestRejected_Witness ==
    /\ Outstanding = 2
    /\ pc[MainTask] = "idle" /\ ret[MainTask].op = "requestData" /\ ret[MainTask].ok

\* C13: a wait that returns changes neither the event bits nor any other
\* member of the instance; every task that waits for data while DATA_READY
\* is set can return, and returns SUCCESS; every task that waits for the
\* initialization while INIT_COMPLETE is set returns SUCCESS.
WaitsDoNotConsume ==
    /\ [](\A t \in Tasks :
            /\ (pc[t] = "wdata_wait" /\ DATA_READY_BIT \in eventGroup)
               => ENABLED WaitForData_Wake(t)
            /\ (pc[t] = "winit_wait" /\ INIT_COMPLETE_BIT \in eventGroup)
               => ENABLED WaitForInitialization_Wake(t))
    /\ [][\A t \in Tasks :
            (pc[t] \in {"wdata_wait", "winit_wait"} /\ pc'[t] = "idle")
            => /\ UNCHANGED <<eventGroup, flags, locks, testData, latch, obs,
                              performedActions, acqTasks, notifyTasks>>
               /\ (pc[t] = "wdata_wait" /\ DATA_READY_BIT \in eventGroup)
                  => (ret'[t].ok /\ ret'[t].code = SUCCESS)
               /\ (pc[t] = "winit_wait" /\ INIT_COMPLETE_BIT \in eventGroup)
                  => (ret'[t].ok /\ ret'[t].code = SUCCESS)]_vars

\* after one initialize() and one requestData() of the main task, the two
\* waitForData() calls of the workers both returned SUCCESS and the bit is
\* still set
WaitsDoNotConsume_Witness ==
    /\ calls = 4
    /\ ret[MainTask].op = "requestData" /\ ret[MainTask].ok
    /\ \A w \in Workers :
          pc[w] = "idle" /\ ret[w].op = "waitForData" /\ ret[w].code = SUCCESS
    /\ DATA_READY_BIT \in eventGroup

\* C14: waitForData(timeout) returns SUCCESS if DATA_READY is set when the
\* wait ends, otherwise the code of the error latch if ERROR is set, otherwise
\* TIMEOUT (for every combination of the event bits); a wait that returns
\* while neither bit is set was given a finite timeout.
WaitForDataOutcome ==
    /\ [](\A bits \in SUBSET {INIT_COMPLETE_BIT, DATA_READY_BIT, ERROR_BIT} :
            WaitForDataResult(bits).code =
                CASE DATA_READY_BIT \in bits -> SUCCESS
                  [] DATA_READY_BIT \notin bits /\ ERROR_BIT \in bits -> nextError
                  [] OTHER -> TIMEOUT)
    /\ [][\A t \in Tasks :
            (pc[t] = "wdata_wait" /\ pc'[t] = "idle")
            => /\ DATA_READY_BIT \in eventGroup => ret'[t].code = SUCCESS
               /\ eventGroup \cap {DATA_READY_BIT, ERROR_BIT} = {}
                  => (ret'[t].code = TIMEOUT /\ arg[t].x # portMAX_DELAY)
               /\ ret'[t].ok = (ret'[t].code = SUCCESS /\ DATA_READY_BIT \in eventGroup)]_vars

\* one worker's wait timed out while an error code was latched, the other
\* worker's wait returned SUCCESS
WaitForDataOutcome_Witness ==
    /\ nextError = DEVICE_BUSY
    /\ \E v, w \in Workers :
          /\ pc[v] = "idle" /\ ret[v].op = "waitForData" /\ ret[v].code = TIMEOUT
          /\ pc[w] = "idle" /\ ret[w].op = "waitForData" /\ ret[w].code = SUCCESS

\* C15: a waitForData(timeout) that returns TIMEOUT leaves every member of
\* the instance and the outstanding acquisitions as they were; an outstanding
\* acquisition can always complete, and when it completes DATA_READY is set;
\* a wait that cannot time out returns SUCCESS.
TimeoutKeepsAcquisition ==
    /\ [](Outstanding > 0 => ENABLED Acquire_SetBits)
    /\ [][/\ \A t \in Tasks :
               (pc[t] = "wdata_wait" /\ pc'[t] = "idle" /\ ret'[t].code = TIMEOUT)
               => UNCHANGED <<eventGroup, flags, locks, testData, latch, obs,
                              performedActions, acqTasks, notifyTasks>>
          /\ \A t \in Tasks :
               (pc[t] = "wdata_wait" /\ pc'[t] = "idle" /\ arg[t].x = portMAX_DELAY)
               => ret'[t].code = SUCCESS
          /\ Outstanding' < Outstanding => DATA_READY_BIT \in eventGroup']_vars

\* with a deferred acquisition and no error ever injected, the task's wait
\* after its requestData() timed out, and a later wait of the same cycle
\* returned SUCCESS
TimeoutKeepsAcquisition_Witness ==
    /\ dataDelay > 0 /\ nextError = SUCCESS
    /\ phase[MainTask] = "failed"
    /\ pc[MainTask] = "idle"
    /\ ret[MainTask].op = "waitForData" /\ ret[MainTask].code = SUCCESS

\* C16: a task that is not inside an operation holds neither the instance
\* lock nor the interface lock, whatever its last operation returned; when no
\* task is inside an operation both locks are free.
LocksReleasedOnReturn ==
    /\ \A t \in Tasks :
          pc[t] = "idle" => (mutexInstance # t /\ mutexInterface # t)
    /\ (\A t \in Tasks : pc[t] = "idle")
          => (mutexInstance = NoTask /\ mutexInterface = NoTask)

\* getData() returned a failure on an initialized device after a requestData()
\* that failed on the armed error latch; both locks are free
LocksReleasedOnReturn_Witness ==
    /\ initialized /\ pc[MainTask] = "idle"
    /\ ret[MainTask].op = "getData" /\ ~ret[MainTask].ok
    /\ phase[MainTask] = "failed" /\ nextError # SUCCESS /\ ~shouldFailNext
    /\ mutexInstance = NoTask /\ mutexInterface = NoTask

\* the positions at which a task waits for the instance lock, and for the
\* interface lock
InstanceTakes == {"init_take", "init_delay", "proc_take", "get_take", "act_take",
                  "reg_take", "unreg_take", "std_take", "rst_take"}
InterfaceTakes == {"req_take"}

\* C17: no task waits for the interface lock while it holds the instance
\* lock, and none waits for the instance lock while it holds the interface
\* lock: the two locks are never nested, in either order, so that no state
\* has one task holding the instance lock and waiting for the interface lock
\* while another holds the interface lock and waits for the instance lock.
LockOrderConsistent ==
    /\ \A t \in Tasks :
          /\ mutexInstance = t => pc[t] \notin InterfaceTakes
          /\ mutexInterface = t => pc[t] \notin InstanceTakes
    /\ ~ \E t, u \in Tasks :
          /\ mutexInstance = t /\ pc[t] \in InterfaceTakes
          /\ mutexInterface = u /\ pc[u] \in InstanceTakes

\* the main task holds the instance lock inside performAction() while the
\* peer holds the interface lock inside requestData()
LockOrderConsistent_Witness ==
    /\ mutexInstance = MainTask /\ pc[MainTask] = "act_notify"
    /\ mutexInterface = Peer /\ pc[Peer] = "req_acquire"

\* the youngest MockNotify context that carries a notification of type e
\* (0 if there is none)
LastNotify(e) ==
    LET S == {i \in 1 .. Len(notifyTasks) : notifyTasks[i].notif.type = e}
    IN  IF S = {} THEN 0 ELSE CHOOSE i \in S : \A j \in S : j <= i

\* task t has triggered event e inside an operation and still holds the lock
\* of that operation
TriggeredUnderLock(t, e) ==
    \/ e = INITIALIZED /\ pc[t] = "init_give" /\ mutexInstance = t
    \/ e = STATE_CHANGED /\ pc[t] = "act_give" /\ mutexInstance = t
    \/ e = DATA_READY /\ pc[t] = "req_give" /\ mutexInterface = t /\ dataDelay = 0

\* C18: while the operation that triggered an enabled event for a non-empty
\* observer list still holds its lock, the MockNotify context of that trigger
\* exists and has invoked no observer.
CallbacksOutsideLocks ==
    \A t \in Tasks, e \in EventTypes :
        (TriggeredUnderLock(t, e) /\ eventsEnabled[e] /\ callbacks # <<>>)
        => /\ LastNotify(e) # 0
           /\ notifyTasks[LastNotify(e)].idx = 1

\* an observer received INITIALIZED while initialize() still holds the
\* instance lock
CallbacksOutsideLocks_Witness ==
    /\ pc[MainTask] = "init_give" /\ mutexInstance = MainTask
    /\ callbacks = <<1>>
    /\ Len(notifyTasks) = 1
    /\ notifyTasks[1].notif.type = INITIALIZED
    /\ notifyTasks[1].snap = <<1>> /\ notifyTasks[1].idx = 2

\* MockNotify context i has invoked observer o / is in its loop and has yet
\* to invoke observer o
Delivered(i, o) ==
    LET d == notifyTasks[i]
    IN  d.stage = "loop" /\ \E p \in 1 .. Len(d.snap) : p < d.idx /\ d.snap[p] = o
Undelivered(i, o) ==
    LET d == notifyTasks[i]
    IN  d.stage = "loop" /\ \E p \in 1 .. Len(d.snap) : p >= d.idx /\ d.snap[p] = o

\* C19: notifications reach an observer in trigger order: no observer has
\* received the notification of a later trigger while the context of an
\* earlier trigger, carrying a different notification, has yet to invoke it
\* (notifyTasks is in trigger order).
DeliveryInTriggerOrder ==
    \A i, j \in 1 .. Len(notifyTasks) :
        (i < j /\ notifyTasks[i].notif # notifyTasks[j].notif)
        => \A o \in Observers : ~(Delivered(j, o) /\ Undelivered(i, o))

\* the observer received DATA_READY while the INITIALIZED notification
\* triggered before it is still to be delivered to it
DeliveryInTriggerOrder_Witness ==
    /\ Len(notifyTasks) = 2
    /\ notifyTasks[1].notif.type = INITIALIZED /\ notifyTasks[2].notif.type = DATA_READY
    /\ Undelivered(1, 1) /\ Delivered(2, 1)

\* the number of notifications n still owed to observer o
OwedCount(o, n) == IF n \in DOMAIN owed[o] THEN owed[o][n] ELSE 0

\* the invocations of observer o with notification n that the MockNotify
\* contexts i, i + 1, ... have yet to make, the contexts whose observer list
\* was modified after the trigger left out
RECURSIVE StillDue(_, _, _)
StillDue(i, o, n) ==
    IF i > Len(notifyTasks) THEN 0
    ELSE LET d == notifyTasks[i]
             rest == IF d.stage = "loop" THEN Tail_(d.snap, d.idx) ELSE callbacks
         IN  (IF ~d.stale /\ d.notif = n THEN Occurrences(rest, o) ELSE 0)
             + StillDue(i + 1, o, n)

\* the notifications that are owed or carried by a MockNotify context
NotificationsAlive ==
    UNION {DOMAIN owed[o] : o \in Observers}
        \cup {notifyTasks[i].notif : i \in 1 .. Len(notifyTasks)}

\* C20: for every trigger of an enabled event there is one MockNotify context
\* carrying the trigger's type, error and payload, and it invokes every
\* registration of the observer list once: what is owed to an observer is at
\* any time exactly what the contexts have yet to deliver to it; a context
\* invokes the observers of its list one after the other and ends only when
\* it has invoked the last one.
ExactlyOncePerTrigger ==
    /\ [](\A o \in Observers, n \in NotificationsAlive :
            OwedCount(o, n) = StillDue(1, o, n))
    /\ [][Len(notifyTasks') < Len(notifyTasks)
            => \E i \in 1 .. Len(notifyTasks) :
                  /\ notifyTasks' = RemoveAt(notifyTasks, i)
                  /\ notifyTasks[i].stage = "loop"
                  /\ notifyTasks[i].idx = Len(notifyTasks[i].snap) + 1]_vars
    /\ [][\A i \in 1 .. Len(notifyTasks) :
            (Len(notifyTasks') = Len(notifyTasks) /\ notifyTasks[i].stage = "loop"
                /\ notifyTasks'[i].idx # notifyTasks[i].idx)
            => /\ notifyTasks[i].idx <= Len(notifyTasks[i].snap)
               /\ notifyTasks'[i].idx = notifyTasks[i].idx + 1
               /\ notifyTasks'[i].notif = notifyTasks[i].notif
               /\ notifyTasks'[i].snap = notifyTasks[i].snap]_vars

\* the context of a DATA_READY trigger has invoked the two registered
\* observers and nothing is owed any more
ExactlyOncePerTrigger_Witness ==
    /\ callbacks = <<1, 2>>
    /\ \E i \in 1 .. Len(notifyTasks) :
          /\ notifyTasks[i].notif = Notification(DATA_READY, SUCCESS, 0)
          /\ ~notifyTasks[i].stale
          /\ notifyTasks[i].snap = <<1, 2>> /\ notifyTasks[i].idx = 3
    /\ \A o \in Observers : owed[o] = EmptyMap

\* C21: a MockNotify context can always go on until it has released its
\* record and ended, whatever its callbacks do: every live context has a next
\* step.
DispatchAlwaysProceeds ==
    \A i \in 1 .. Len(notifyTasks) :
        ENABLED (NotifyTask_Begin(i) \/ NotifyTask_Callback(i) \/ NotifyTask_End(i))

\* the second observer of an INITIALIZED notification threw: the context is
\* stuck inside its loop with its record
DispatchAlwaysProceeds_Witness ==
    /\ callbacks = <<1, 2>>
    /\ \E i \in 1 .. Len(notifyTasks) :
          /\ notifyTasks[i].notif.type = INITIALIZED
          /\ notifyTasks[i].stage = "terminate"
          /\ notifyTasks[i].snap = <<1, 2>> /\ notifyTasks[i].idx = 2

\* the positions of a task inside requestData()
InRequestData == {"req_init", "req_latch", "req_fail", "req_take", "req_flags",
                  "req_clear", "req_acquire", "req_notify", "req_give"}

\* C22: with dataDelay = 0, DATA_READY is set when a successful requestData()
\* has returned; with dataDelay > 0 no step of requestData() sets DATA_READY,
\* its acquisition step creates one MockDataAcq context, and the bit only
\* becomes set by a step in which such a context completes.
AcquisitionLatency ==
    /\ [](\A t \in Tasks :
            (dataDelay = 0 /\ pc[t] = "idle" /\ ret[t].op = "requestData" /\ ret[t].ok)
            => DATA_READY_BIT \in eventGroup)
    /\ [][\A t \in Tasks :
            (dataDelay > 0 /\ pc[t] \in InRequestData /\ pc'[t] # pc[t])
            => /\ DATA_READY_BIT \in eventGroup' => DATA_READY_BIT \in eventGroup
               /\ pc[t] = "req_acquire" => Outstanding' = Outstanding + 1
               /\ pc[t] # "req_acquire" => Outstanding' = Outstanding]_vars
    /\ [][(dataDelay > 0 /\ DATA_READY_BIT \notin eventGroup
              /\ DATA_READY_BIT \in eventGroup')
            => Outstanding' = Outstanding - 1]_vars

\* with a deferred acquisition, requestData() returned true while the bit was
\* clear, and the bit was asserted afterwards by the MockDataAcq context
AcquisitionLatency_Witness ==
    /\ dataDelay > 0 /\ calls = 2
    /\ pc[MainTask] = "idle" /\ ret[MainTask].op = "requestData" /\ ret[MainTask].ok
    /\ DATA_READY_BIT \in eventGroup
    /\ Outstanding = 0 /\ acqTasks.notify = 1

\* C23: while an acquisition is outstanding (DATA_READY cleared by its
\* requestData() and not yet asserted for it) the interface lock is held, and
\* at most one acquisition is outstanding.
InterfaceLockSpansAcquisition ==
    /\ Outstanding > 0 => mutexInterface # NoTask
    /\ Outstanding <= 1

\* requestData() has returned and released the interface lock while its
\* acquisition is outstanding and DATA_READY is clear
InterfaceLockSpansAcquisition_Witness ==
    /\ pc[MainTask] = "idle" /\ ret[MainTask].op = "requestData" /\ ret[MainTask].ok
    /\ mutexInterface = NoTask
    /\ Outstanding = 1 /\ DATA_READY_BIT \notin eventGroup

\* the steps that read or write initialized, dataProcessed, performedActions
\* or callbacks: a task at one of these labels performs the access next
GuardedAccess == {"init_flag", "req_init", "req_flags", "proc_set", "get_read",
                  "act_init", "act_push", "reg_push", "unreg_clear", "rst_clear"}

\* C24: a task that is about to read or write the initialized flag, the
\* processed flag, the action log or the observer list holds the instance
\* lock.
GuardedFieldsUnderInstanceLock ==
    \A t \in Tasks : pc[t] \in GuardedAccess => mutexInstance = t

\* the peer is about to overwrite a set processed flag in requestData() while
\* the main task holds the instance lock inside performAction()
GuardedFieldsUnderInstanceLock_Witness ==
    /\ pc[Peer] = "req_flags" /\ dataProcessed
    /\ mutexInstance = MainTask /\ pc[MainTask] = "act_push"

InPerformAction == {"act_init", "act_take", "act_push", "act_notify", "act_give"}

\* what one performAction(id, param) call of task t does on an initialized
\* device, apart from its notification: it gets past the initialization
\* check, returns only with success, and appends exactly (id, param) to the
\* end of the action log
PerformActionStep(t) ==
    /\ (pc[t] = "act_init" /\ initialized) => pc'[t] = "act_take"
    /\ (pc[t] \in InPerformAction \ {"act_init"} /\ pc'[t] = "idle")
           => ret'[t] = Result("performAction", TRUE, SUCCESS, <<>>)
    /\ pc[t] = "act_push"
           => performedActions' = Append(performedActions, <<arg[t].x, arg[t].y>>)
    /\ pc[t] \in InPerformAction \ {"act_notify"} => Len(notifyTasks') <= Len(notifyTasks)

\* the notification of the call: one new context that carries
\* (STATE_CHANGED, SUCCESS, id)
OneStateChanged(t) ==
    /\ Len(notifyTasks') = Len(notifyTasks) + 1
    /\ notifyTasks'[Len(notifyTasks')].notif = Notification(STATE_CHANGED, SUCCESS, arg[t].x)
    /\ SubSeq(notifyTasks', 1, Len(notifyTasks)) = notifyTasks

\* C25: on an initialized device performAction(id, param) returns success
\* for every id and param, appends exactly (id, param) to the end of the
\* action log and triggers one STATE_CHANGED notification with SUCCESS and
\* payload id; the action log changes in no other way, so it always is the
\* sequence of the successful calls in call order.
ActionLogComplete ==
    [][/\ \A t \in Tasks :
              (pc[t] \in InPerformAction /\ pc'[t] # pc[t])
              => /\ PerformActionStep(t)
                 /\ pc[t] = "act_notify" => OneStateChanged(t)
       /\ performedActions' # performedActions
              => \E t \in Tasks : pc[t] = "act_push" /\ pc'[t] = "act_notify"]_vars

\* C25 as it holds: the notification is triggered when STATE_CHANGED is
\* enabled and none is triggered when it is disabled, and reset() empties the
\* action log, which therefore is the sequence of the successful calls since
\* construction or the last reset().
ActionLogSinceReset ==
    [][/\ \A t \in Tasks :
              (pc[t] \in InPerformAction /\ pc'[t] # pc[t])
              => /\ PerformActionStep(t)
                 /\ pc[t] = "act_notify"
                        => IF eventsEnabled[STATE_CHANGED]
                           THEN OneStateChanged(t)
                           ELSE notifyTasks' = notifyTasks
       /\ performedActions' # performedActions
              => \/ \E t \in Tasks : pc[t] = "act_push" /\ pc'[t] = "act_notify"
                 \/ \E t \in Tasks : pc[t] = "rst_clear" /\ performedActions' = <<>>]_vars

\* after a reset, performAction(42, 100) and performAction(-1, 100) have
\* returned success and the second call's notification is alive
ActionLogSinceReset_Witness ==
    /\ wasReset /\ initialized
    /\ pc[MainTask] = "idle" /\ ret[MainTask] = Result("performAction", TRUE, SUCCESS, <<>>)
    /\ performedActions = << <<42, 100>>, <<-1, 100>> >>
    /\ Len(notifyTasks) = 1
    /\ notifyTasks[1].notif = Notification(STATE_CHANGED, SUCCESS, -1)

InGetData == {"get_take", "get_read", "get_give"}

\* C26: getData(T) returns a failure with an empty value list when the device
\* is not initialized, when processData() has not run since the last
\* successful requestData() (only processData() sets the processed flag and a
\* successful requestData() clears it), or when no samples are configured for
\* T; no step of getData changes the instance state, and the instance lock it
\* took is free again when it returns.
GetDataFailsCleanly ==
    /\ [][\A t \in Tasks :
            (pc[t] \in InGetData /\ pc'[t] # pc[t])
            => /\ UNCHANGED <<flags, mutexInterface, eventGroup, testData, latch, obs,
                              performedActions, acqTasks, notifyTasks>>
               /\ pc[t] = "get_read"
                      => ((~initialized \/ ~dataProcessed \/ arg[t].x \notin DOMAIN testData)
                          => (~arg'[t].y.ok /\ arg'[t].y.values = <<>>))
               /\ pc[t] = "get_give"
                      => /\ ret'[t] = arg[t].y
                         /\ mutexInstance' = NoTask
                         /\ phase[t] \in {"requested", "waited"}
                                => (~ret'[t].ok /\ ret'[t].values = <<>>)]_vars
    /\ [][dataProcessed' # dataProcessed
            => IF dataProcessed'
               THEN \E t \in Tasks : pc[t] = "proc_set"
               ELSE \E t \in Tasks : pc[t] = "req_flags"]_vars

\* samples are configured, the acquisition was requested and waited for but
\* not processed: getData(TEMPERATURE) has returned a failure without values
GetDataFailsCleanly_Witness ==
    /\ initialized /\ ~dataProcessed /\ TEMPERATURE \in DOMAIN testData
    /\ phase[MainTask] = "waited"
    /\ pc[MainTask] = "idle"
    /\ ret[MainTask] = Result("getData", FALSE, SUCCESS, <<>>)
    /\ mutexInstance = NoTask

\* C27: setEventNotification(type, enable) fails with INVALID_PARAMETER and
\* leaves every enable flag unchanged for every type value outside the five
\* EventType values; for a valid type it returns success and changes only
\* that type's flag.
SetEventNotificationValidates ==
    [][\A t \in Tasks :
          pc[t] = "sev_set" /\ pc'[t] = "idle"
          => IF arg[t].x \in EventTypes
             THEN /\ ret'[t] = Result("setEventNotification", TRUE, SUCCESS, <<>>)
                  /\ eventsEnabled' = [eventsEnabled EXCEPT ![arg[t].x] = arg[t].y]
             ELSE /\ ret'[t] = Result("setEventNotification", FALSE, INVALID_PARAMETER, <<>>)
                  /\ eventsEnabled' = eventsEnabled]_vars

\* setEventNotification(-1, false) is at its range test, which -1 passes
SetEventNotificationValidates_Witness ==
    /\ pc[MainTask] = "sev_set"
    /\ arg[MainTask].x = -1 /\ arg[MainTask].y = FALSE
    /\ arg[MainTask].x < NumEventTypes /\ arg[MainTask].x \notin EventTypes

\* an initialize() call has set the initialized flag and INIT_COMPLETE_BIT
InitializationCompleted ==
    initReturned > 0 \/ \E u \in Tasks : pc[u] \in {"init_notify", "init_give"}

\* C28: waitForInitialization(timeout) returns TIMEOUT when no initialize()
\* has completed within the timeout and SUCCESS once initialization has
\* completed; when it returns SUCCESS isInitialized() is true; a wait with a
\* finite timeout on a device nobody initializes can time out.
WaitForInitializationOutcome ==
    /\ [][\A t \in Tasks :
            pc[t] = "winit_wait" /\ pc'[t] = "idle"
            => /\ ret'[t].op = "waitForInitialization"
               /\ ret'[t].code = IF InitializationCompleted THEN SUCCESS ELSE TIMEOUT
               /\ ret'[t].code = TIMEOUT => arg[t].x # portMAX_DELAY]_vars
    /\ [](\A t \in Tasks :
            /\ (pc[t] = "idle" /\ ret[t].op = "waitForInitialization"
                    /\ ret[t].code = SUCCESS) => IsInitialized
            /\ (pc[t] = "winit_wait" /\ arg[t].x # portMAX_DELAY /\ ~initStarted)
                    => ENABLED WaitForInitialization_Timeout(t))

\* one waiter timed out before the device was initialized, the other one
\* returned SUCCESS after it
WaitForInitializationOutcome_Witness ==
    /\ ret[1].op = "waitForInitialization" /\ ret[1].code = TIMEOUT
    /\ ret[2].op = "waitForInitialization" /\ ret[2].code = SUCCESS
    /\ pc[1] = "idle" /\ pc[2] = "idle"
    /\ initialized /\ initReturned = 1

Destroyed == \E t \in Tasks : pc[t] = "gone"

\* C29: until the destructor runs, getMutexInstance(), getMutexInterface()
\* and getEventGroup() return the three handles made by the constructor,
\* none of them null and the two lock handles different, their kernel objects
\* exist, and no step but the destructor's deletes or replaces one.
HandlesStable ==
    /\ [](~Destroyed =>
            /\ GetMutexInstance = Created.mutexInstance
            /\ GetMutexInterface = Created.mutexInterface
            /\ GetEventGroup = Created.eventGroup
            /\ NULL \notin {GetMutexInstance, GetMutexInterface, GetEventGroup}
            /\ GetMutexInstance # GetMutexInterface
            /\ {GetMutexInstance, GetMutexInterface, GetEventGroup} \subseteq kernelObjects)
    /\ [][~Destroyed' => (handles' = handles /\ kernelObjects' = kernelObjects)]_vars

\* the instance has been initialized, used, reset and then destroyed: the
\* three kernel objects are gone
HandlesStable_Witness ==
    /\ Destroyed /\ wasReset /\ calls = MaxOwnerCalls
    /\ kernelObjects = {}
    /\ handles = Created

DeclaredTypes == {TEMPERATURE, HUMIDITY, PRESSURE, RELAY_STATE}

\* C30: isValidDataType(v) is true exactly when 0 <= v < NUM_TYPES, that is
\* for the four declared data types, and false for every other int, -1 and
\* NUM_TYPES included.
ValidDataTypeRange ==
    /\ [][\A t \in Tasks :
            pc[t] = "valid_eval" /\ pc'[t] = "idle"
            => /\ ret'[t].op = "isValidDataType"
               /\ ret'[t].ok <=> (0 <= arg[t].x /\ arg[t].x < NUM_TYPES)
               /\ ret'[t].ok <=> arg[t].x \in DeclaredTypes
               /\ arg[t].x \in {-1, NUM_TYPES} => ~ret'[t].ok]_vars
    /\ [](Cardinality(DeclaredTypes) = 4 /\ {-1, NUM_TYPES} \subseteq Probes)

\* the peer has had a declared type accepted and the main task a number
\* refused
ValidDataTypeRange_Witness ==
    /\ pc[Peer] = "idle" /\ ret[Peer] = Result("isValidDataType", TRUE, SUCCESS, <<>>)
    /\ pc[MainTask] = "idle"
    /\ ret[MainTask] = Result("isValidDataType", FALSE, SUCCESS, <<>>)

\* C31: getData(T) returns success only if the task's requestData() succeeded
\* since the device was initialized, and processData() does not set the
\* processed flag when no request was made or while the acquisition of the
\* request is outstanding.
ProcessNeedsAcquiredData ==
    /\ [](\A t \in Tasks :
            (pc[t] = "idle" /\ ret[t].op = "getData" /\ ret[t].ok)
            => (dataRequested /\ phase[t] \in {"processed", "unwaited", "failed"}))
    /\ [][\A t \in Tasks :
            (pc[t] = "proc_set" /\ pc'[t] # pc[t] /\ (~dataRequested \/ Outstanding > 0))
            => ~dataProcessed']_vars

\* getData(TEMPERATURE) has returned the samples on a device on which no
\* requestData() was ever called
ProcessNeedsAcquiredData_Witness ==
    /\ pc[MainTask] = "idle" /\ ret[MainTask].op = "getData" /\ ret[MainTask].ok
    /\ ret[MainTask].values = cfg[TEMPERATURE]
    /\ ~dataRequested /\ phase[MainTask] = "idle"
    /\ DATA_READY_BIT \notin eventGroup /\ Outstanding = 0

\* C32: the error latch set by injectError(E) is consumed by exactly one
\* requestData() on an initialized device: the call that fails on it finds
\* the latch set and an injection not yet consumed, clears the latch and
\* changes no flag and no event bit; a call that passes the latch succeeds;
\* only requestData(), injectError() and reset() change the latch.
LatchConsumedOnce ==
    /\ [][\A t \in Tasks :
            (pc[t] = "req_fail" /\ pc'[t] # pc[t])
            => /\ initialized /\ shouldFailNext /\ injected # SUCCESS
               /\ ~shouldFailNext'
               /\ pc'[t] = "idle" /\ ~ret'[t].ok
               /\ UNCHANGED <<flags, eventGroup>>]_vars
    /\ [][\A t \in Tasks :
            (pc[t] \in PastLatch /\ pc'[t] = "idle") => ret'[t].ok]_vars
    /\ [][<<nextError, shouldFailNext>>' # <<nextError, shouldFailNext>>
            => \E t \in Tasks : pc[t] \in {"req_fail", "inj_set", "rst_clear"}]_vars

\* after one injectError() the first requestData() of either worker has
\* failed
LatchConsumedOnce_Witness ==
    /\ iter[MainTask] = 3 /\ calls = 2
    /\ \A w \in {1, 2} :
          pc[w] = "idle" /\ ret[w] = Result("requestData", FALSE, SUCCESS, <<>>)
    /\ initialized /\ ~shouldFailNext

\* C33: the ERROR event bit is clear in every reachable state and no step
\* sets it; waitForData returns only SUCCESS or TIMEOUT, and never the code
\* of the error latch, also after a requestData() that failed on an injected
\* error.
ErrorBitNeverSet ==
    /\ [](ERROR_BIT \notin eventGroup)
    /\ [][ERROR_BIT \notin eventGroup']_vars
    /\ [](\A t \in Tasks :
            (pc[t] = "idle" /\ ret[t].op = "waitForData")
            => (ret[t].code \in {SUCCESS, TIMEOUT} /\ ret[t].code \notin InjectCodes))

\* the task's requestData() failed on an injected DEVICE_BUSY, and the
\* waitForData it issued afterwards has returned TIMEOUT
ErrorBitNeverSet_Witness ==
    /\ phase[MainTask] = "failed" /\ nextError = DEVICE_BUSY /\ ~shouldFailNext
    /\ pc[MainTask] = "idle"
    /\ ret[MainTask] = Result("waitForData", FALSE, TIMEOUT, <<>>)
    /\ eventGroup = {INIT_COMPLETE_BIT}

\* C34: under fair scheduling a requestData() that has returned success is
\* eventually followed by DATA_READY being set, and a waitForData() without
\* timeout that waits on a device for which a requestData() has succeeded
\* eventually returns true.
DataReadyEventually ==
    /\ \A t \in {MainTask, Peer} :
          (pc[t] = "idle" /\ ret[t].op = "requestData" /\ ret[t].ok)
              ~> (DATA_READY_BIT \in eventGroup)
    /\ \A t \in {MainTask, Peer} :
          (pc[t] = "wdata_wait" /\ arg[t].x = portMAX_DELAY /\ dataRequested)
              ~> (pc[t] = "idle" /\ ret[t] = Result("waitForData", TRUE, SUCCESS, <<>>))

\* on the device with a latency the peer has waited from before the request
\* and the main task from after it, and both waits have returned true
DataReadyEventually_Witness ==
    /\ dataDelay > 0 /\ calls = 4
    /\ \A t \in {MainTask, Peer} :
          pc[t] = "idle" /\ ret[t] = Result("waitForData", TRUE, SUCCESS, <<>>)
    /\ phase[MainTask] = "waited"
    /\ Outstanding = 0

\* C35: no task holds the instance lock and the interface lock at the same
\* time: requestData() takes the interface lock only, every other operation
\* the instance lock only, and a task that takes a lock holds none.
NeverBothLocks ==
    /\ [](\A t \in Tasks :
            /\ ~(mutexInstance = t /\ mutexInterface = t)
            /\ mutexInstance = t => pc[t] \notin InRequestData \cup {"idle"}
            /\ mutexInterface = t => pc[t] \in InRequestData)
    /\ [][\A t \in Tasks :
            /\ (mutexInstance' = t /\ mutexInstance # t)
                   => (pc[t] \in InstanceTakes /\ mutexInterface # t)
            /\ (mutexInterface' = t /\ mutexInterface # t)
                   => (pc[t] \in InterfaceTakes /\ mutexInstance # t)]_vars

\* the owner holds the interface lock inside requestData(), where it
\* triggers DATA_READY, and does not hold the instance lock
NeverBothLocks_Witness ==
    /\ mutexInterface = MainTask /\ pc[MainTask] = "req_notify"
    /\ mutexInstance = NoTask

\* a MockNotify context that is inside its loop over the observers
Iterating(i) ==
    notifyTasks[i].stage = "loop" /\ notifyTasks[i].idx <= Len(notifyTasks[i].snap)

\* C36: the observer list is not modified while a dispatch context is
\* iterating over it: a context inside its loop walks the list as it is, and
\* no step changes the list while a context is inside its loop.
AtomicWithDispatch ==
    /\ [](\A i \in 1 .. Len(notifyTasks) : Iterating(i) => notifyTasks[i].snap = callbacks)
    /\ [][callbacks' # callbacks
            => \A i \in 1 .. Len(notifyTasks) : ~Iterating(i)]_vars

\* a context has called the first of two observers, and unregisterCallbacks()
\* has emptied the list under it
AtomicWithDispatch_Witness ==
    /\ callbacks = <<>>
    /\ pc[MainTask] = "idle" /\ ret[MainTask].op = "unregisterCallbacks"
    /\ \E i \in 1 .. Len(notifyTasks) :
          /\ notifyTasks[i].stage = "loop"
          /\ notifyTasks[i].snap = <<1, 2>> /\ notifyTasks[i].idx = 2

\* C37: the enable flag of an event is evaluated when the event is triggered
\* and the observer list is read when the dispatch context runs: a context
\* that starts its loop takes the list as it is then, so that an
\* unregisterCallbacks() completed in between leaves it no observer and an
\* observer registered in between is called; setEventNotification() cancels
\* no context that is pending.
ListReadAtDispatch ==
    /\ [][\A i \in 1 .. Len(notifyTasks) :
            (Len(notifyTasks') = Len(notifyTasks)
                 /\ notifyTasks[i].stage = "new" /\ notifyTasks'[i].stage = "loop")
            => (notifyTasks'[i].snap = callbacks /\ notifyTasks'[i].idx = 1)]_vars
    /\ [][\A t \in Tasks :
            (pc[t] = "sev_set" /\ pc'[t] # pc[t]) => notifyTasks' = notifyTasks]_vars
    /\ [][Len(notifyTasks') > Len(notifyTasks)
            => /\ eventsEnabled[notifyTasks'[Len(notifyTasks')].notif.type]
               /\ notifyTasks'[Len(notifyTasks')].stage = "new"]_vars
    /\ [](\A i \in 1 .. Len(notifyTasks) :
            (notifyTasks[i].stage = "new") => notifyTasks[i].snap = <<>>)

\* INITIALIZED was triggered while observer 1 was registered; then
\* unregisterCallbacks(), registerCallback(2) and
\* setEventNotification(INITIALIZED, false) completed; the context that
\* started afterwards has called observer 2 only
ListReadAtDispatch_Witness ==
    /\ calls = 5 /\ pc[MainTask] = "idle"
    /\ ret[MainTask].op = "setEventNotification"
    /\ ~eventsEnabled[INITIALIZED]
    /\ callbacks = <<2>>
    /\ Len(notifyTasks) = 1
    /\ notifyTasks[1].notif.type = INITIALIZED
    /\ notifyTasks[1].stage = "loop" /\ notifyTasks[1].stale
    /\ notifyTasks[1].snap = <<2>> /\ notifyTasks[1].idx = 2

\* C38: when the instance is destroyed no deferred acquisition context and no
\* dispatch context created by it is pending, and after the destructor no
\* such context takes a step: the event bits, the observer list and the
\* flags are not accessed any more.
NoContextOutlivesInstance ==
    /\ [](Destroyed => Pending = 0)
    /\ [][Destroyed => /\ acqTasks' = acqTasks
                       /\ notifyTasks' = notifyTasks
                       /\ eventGroup' = eventGroup]_vars

\* requestData() returned and the instance was destroyed while the
\* MockDataAcq context was still in its delay: the context is left with a
\* pointer to the destroyed instance and the handle of a deleted event group
NoContextOutlivesInstance_Witness ==
    /\ Destroyed
    /\ handles.eventGroup \notin kernelObjects
    /\ dataDelay > 0
    /\ ret[MainTask] = Result("requestData", TRUE, SUCCESS, <<>>)
    /\ acqTasks.delay = 1
    /\ DATA_READY_BIT \notin eventGroup

(***************************************************************************)
(* SpecReset: one client configures the device (observers, enable flags,   *)
(* samples, error latch), initializes it, requests data, performs actions  *)
(* and resets it, while the deferred contexts run                          *)
(***************************************************************************)
NextReset ==
    \/ Budget(MaxTaskCalls) /\ Api_Register(MainTask)
    \/ Budget(MaxTaskCalls) /\ Api_SetEvent(MainTask)
    \/ Budget(MaxTaskCalls) /\ Api_SetTestData(MainTask)
    \/ Budget(MaxTaskCalls) /\ Api_InjectError(MainTask)
    \/ Budget(MaxTaskCalls) /\ Api_Initialize(MainTask)
    \/ Budget(MaxTaskCalls) /\ Api_RequestData(MainTask)
    \/ Budget(MaxTaskCalls) /\ Api_PerformAction(MainTask)
    \/ Budget(MaxTaskCalls) /\ Api_Reset(MainTask)
    \/ RegisterCallback(MainTask)
    \/ SetEventNotification(MainTask)
    \/ SetTestData(MainTask)
    \/ InjectError(MainTask)
    \/ Initialize(MainTask)
    \/ RequestData(MainTask)
    \/ PerformAction(MainTask)
    \/ Reset(MainTask)
    \/ Acquire_SetBits
    \/ Acquire_Notify
    \/ \E i \in 1 .. Len(notifyTasks) : NotifyTask_Begin(i)
    \/ \E i \in 1 .. Len(notifyTasks) : NotifyTask_End(i)

SpecReset == Init /\ [][NextReset]_vars


\* C39: reset() sets initialized, dataRequested and dataProcessed to false,
\* empties the sample table and the action log, clears the error latch and
\* the three event bits, and leaves the observer list and the enable flags
\* as they are; it cancels no deferred acquisition, which can set DATA_READY
\* afterwards on the device that is no longer initialized.
ResetFrame ==
    [][\A t \in Tasks :
        /\ (pc[t] = "rst_clear" /\ pc'[t] # pc[t])
           => /\ ~initialized' /\ ~dataRequested' /\ ~dataProcessed'
              /\ testData' = EmptyMap
              /\ performedActions' = <<>>
              /\ nextError' = SUCCESS /\ ~shouldFailNext'
              /\ UNCHANGED <<callbacks, eventsEnabled, acqTasks, notifyTasks>>
        /\ (pc[t] = "rst_bits" /\ pc'[t] # pc[t])
           => /\ eventGroup' \cap {INIT_COMPLETE_BIT, DATA_READY_BIT, ERROR_BIT} = {}
              /\ ret'[t] = Result("reset", TRUE, SUCCESS, <<>>)
              /\ ~initialized' /\ ~dataProcessed'
              /\ testData' = EmptyMap /\ performedActions' = <<>>
              /\ UNCHANGED <<callbacks, eventsEnabled, acqTasks, notifyTasks>>]_vars

\* reset() has returned on a device with an observer and a deferred
\* acquisition in its delay; the acquisition has then set DATA_READY: the
\* bit is set while the device is not initialized and no request is recorded
ResetFrame_Witness ==
    /\ pc[MainTask] = "idle" /\ ret[MainTask] = Result("reset", TRUE, SUCCESS, <<>>)
    /\ wasReset /\ ~initialized /\ ~dataRequested
    /\ callbacks # <<>>
    /\ DATA_READY_BIT \in eventGroup
    /\ INIT_COMPLETE_BIT \notin eventGroup

====
